---- MODULE Spec2Model ----
(***************************************************************************)
(* Model of the run orchestration and verification gate of the developer   *)
(* agent: the in-memory run store, the start pipeline (startAgentRun), the *)
(* approval handler (approveOrRejectRun / finalizeApprovedRun), the gated  *)
(* edit loop (generateEditsWithUnitTestGate) with the unit-test gate, and  *)
(* the verification engine (runTestsAndCollectCoverage).                   *)
(*                                                                         *)
(* JavaScript runs one task at a time: the code between two awaits is one  *)
(* atomic step, so every action below is the code from one await to the    *)
(* next.  Text values (paths, feedback) are sequences of one-character     *)
(* strings so that the string operations of the code can be computed.     *)
(***************************************************************************)
EXTENDS Integers, Sequences, FiniteSets, TLC

(***************************************************************************)
(* Bounds of the model.                                                    *)
(***************************************************************************)
\* number of approveOrRejectRun calls made in one behaviour
MaxCalls == 1
\* number of runTestsAndCollectCoverage calls made in one behaviour
MaxVerifyCalls == 1
\* longest candidate edit set handed to the unit-test gate on its own
MaxGateEdits == 2
MaxProse == 1
MaxPieces == 1
MaxCoverageEdits == 2
MaxStoreOps == 3
MaxItems == 3
MaxRepairTokens == 5
MaxReportLines == 4
MaxLanguages == 2
MaxRepoFiles == 2
MaxSafeEdits == 2

(***************************************************************************)
(* String helpers (String.prototype.endsWith / startsWith / includes /     *)
(* toLowerCase / trim / replace / split().pop()).                          *)
(***************************************************************************)
EndsWith(s, suf) ==
    /\ Len(s) >= Len(suf)
    /\ SubSeq(s, Len(s) - Len(suf) + 1, Len(s)) = suf

StartsWith(s, pre) ==
    /\ Len(s) >= Len(pre)
    /\ SubSeq(s, 1, Len(pre)) = pre

Includes(s, sub) ==
    \E i \in 1..(Len(s) - Len(sub) + 1) : SubSeq(s, i, i + Len(sub) - 1) = sub

UpperCase == <<"A", "B", "C", "D", "E", "F", "G", "H", "I", "J", "K", "L", "M",
               "N", "O", "P", "Q", "R", "S", "T", "U", "V", "W", "X", "Y", "Z">>
LowerCase == <<"a", "b", "c", "d", "e", "f", "g", "h", "i", "j", "k", "l", "m",
               "n", "o", "p", "q", "r", "s", "t", "u", "v", "w", "x", "y", "z">>

LowerChar(ch) ==
    IF \E i \in 1..Len(UpperCase) : UpperCase[i] = ch
    THEN LowerCase[CHOOSE i \in 1..Len(UpperCase) : UpperCase[i] = ch]
    ELSE ch

ToLowerCase(s) == [i \in 1..Len(s) |-> LowerChar(s[i])]

\* filePath.replace(/\\/g, "/")
NormalizeSlashes(s) == [i \in 1..Len(s) |-> IF s[i] = "\\" THEN "/" ELSE s[i]]

\* normalized.split("/").pop()
BaseName(s) ==
    LET slashes == {i \in 1..Len(s) : s[i] = "/"}
        last == IF slashes = {} THEN 0
                ELSE CHOOSE i \in slashes : \A j \in slashes : j <= i
    IN  SubSeq(s, last + 1, Len(s))

\* the characters \s matches and trim() removes, of those a text may hold
IsSpace(ch) == ch \in {" ", "\t", "\n", "\r", "\f"}

\* String.prototype.trim
Trim(s) ==
    LET keep == {i \in 1..Len(s) : ~IsSpace(s[i])}
    IN  IF keep = {} THEN <<>>
        ELSE SubSeq(s, CHOOSE i \in keep : \A j \in keep : i <= j,
                       CHOOSE i \in keep : \A j \in keep : j <= i)

(***************************************************************************)
(* The unit-test gate.                                                     *)
(***************************************************************************)
TestDirMarkers == { <<"/", "_", "_", "t", "e", "s", "t", "s", "_", "_", "/">>,
                    <<"/", "t", "e", "s", "t", "s", "/">>,
                    <<"/", "t", "e", "s", "t", "/">> }

TestSuffixes == { <<".", "t", "e", "s", "t", ".", "t", "s">>,
                  <<".", "t", "e", "s", "t", ".", "t", "s", "x">>,
                  <<".", "t", "e", "s", "t", ".", "j", "s">>,
                  <<".", "s", "p", "e", "c", ".", "t", "s">>,
                  <<".", "s", "p", "e", "c", ".", "j", "s">>,
                  <<"_", "t", "e", "s", "t", ".", "g", "o">>,
                  <<"t", "e", "s", "t", ".", "p", "y">>,
                  <<"t", "e", "s", "t", ".", "j", "a", "v", "a">> }

isTestLikePath(filePath) ==
    LET normalized == NormalizeSlashes(filePath)
        lower == ToLowerCase(normalized)
        baseName == ToLowerCase(BaseName(normalized))
    IN  \/ \E m \in TestDirMarkers : Includes(lower, m)
        \/ \E suf \in TestSuffixes : EndsWith(baseName, suf)
        \/ /\ StartsWith(baseName, <<"t", "e", "s", "t", "_">>)
           /\ EndsWith(baseName, <<".", "p", "y">>)

sourceExtensions == { <<".", "t", "s">>, <<".", "t", "s", "x">>, <<".", "j", "s">>,
                      <<".", "j", "s", "x">>, <<".", "j", "a", "v", "a">>,
                      <<".", "k", "t">>, <<".", "p", "y">>, <<".", "g", "o">>,
                      <<".", "c", "s">> }

isSourceLikePath(filePath) ==
    /\ \E ext \in sourceExtensions : EndsWith(ToLowerCase(filePath), ext)
    /\ ~isTestLikePath(filePath)

\* repo.languageSummary.<language>, 0 standing for an absent key
LanguageCount(repo, language) ==
    IF language \in DOMAIN repo.languageSummary
    THEN repo.languageSummary[language] ELSE 0

TestRequiringLanguages == {"TypeScript", "JavaScript", "Java", "Kotlin", "Python", "Go"}

\* a profile check that knows the Node languages only
requiresTestsNodeOnly(repo) ==
    \E language \in {"TypeScript", "JavaScript"} : LanguageCount(repo, language) # 0

requiresTests(repo) ==
    \E language \in TestRequiringLanguages : LanguageCount(repo, language) # 0

\* a gate without the guard for the empty edit set
passesUnitTestGateNoEmptyGuard(edits, repo) ==
    IF \A i \in 1..Len(edits) : ~isSourceLikePath(edits[i].path) THEN TRUE
    ELSE IF ~requiresTests(repo) THEN TRUE
    ELSE \E i \in 1..Len(edits) : isTestLikePath(edits[i].path)

passesUnitTestGate(edits, repo) ==
    IF Len(edits) = 0 THEN FALSE
    ELSE IF \A i \in 1..Len(edits) : ~isSourceLikePath(edits[i].path) THEN TRUE
    ELSE IF ~requiresTests(repo) THEN TRUE
    ELSE \E i \in 1..Len(edits) : isTestLikePath(edits[i].path)


(***************************************************************************)
(* Values.                                                                 *)
(***************************************************************************)
\* an absent optional field of a record (undefined)
Undefined == "undefined"
\* what readFileIfExists returns for a missing file (null)
Absent == "ENOENT"

P_src_a_ts == <<"s", "r", "c", "/", "a", ".", "t", "s">>
P_src_a_test_ts == <<"s", "r", "c", "/", "a", ".", "t", "e", "s", "t", ".", "t", "s">>
P_readme == <<"R", "E", "A", "D", "M", "E", ".", "m", "d">>

\* the repository-relative paths of the working tree the model follows
Paths == {P_src_a_ts, P_src_a_test_ts, P_readme}

\* DraftEdit {path, content}
Edit(p, c) == [path |-> p, content |-> c]

\* candidate edit sets the reasoning service may answer with
EditsSourceOnly == <<Edit(P_src_a_ts, "impl")>>
EditsWithTest == <<Edit(P_src_a_ts, "impl"), Edit(P_src_a_test_ts, "test")>>
EditsEmpty == <<>>

CandidateEdits == {EditsSourceOnly, EditsWithTest, EditsEmpty}

\* the parsed edit payload {edits, summary, ...}
Payload(edits) == [edits |-> edits, summary |-> "summary"]

\* what one generateText + parseJsonObject round can give: a transport error,
\* text that does not parse, or a parsed payload
ResponseThrow == [kind |-> "throw", payload |-> Payload(<<>>)]
ResponseUnparseable == [kind |-> "unparseable", payload |-> Payload(<<>>)]
ResponsePayload(edits) == [kind |-> "payload", payload |-> Payload(edits)]

EditResponses ==
    {ResponseThrow, ResponseUnparseable} \cup {ResponsePayload(e) : e \in CandidateEdits}

\* RepoSnapshot values scanRepository may return (languageSummary only)
RepoTypeScript == [languageSummary |-> [l \in {"TypeScript", "Other"} |-> 3]]
RepoDocs == [languageSummary |-> [l \in {"Other"} |-> 2]]
Repos == {RepoTypeScript, RepoDocs}
NoRepo == [languageSummary |-> [l \in {} |-> 0]]

\* optional texts: the feedback parameter of approveOrRejectRun
NoFeedback == [given |-> FALSE, text |-> <<>>]
Feedback(t) == [given |-> TRUE, text |-> t]
\* missing, blank, and text with surrounding blanks
Feedbacks == {NoFeedback, Feedback(<<" ">>), Feedback(<<" ", "f", " ">>)}

\* JavaScript truthiness of an optional string
Truthy(fb) == fb.given /\ Len(fb.text) > 0

\* messages of the errors the collaborators and the code throw
MsgFetchTask == "Failed fetching task"
MsgScan == "scan failed"
MsgDirty == "Working tree is not clean. Commit/stash existing changes before running the agent."
MsgGit == "git command failed"
MsgLlm == "generateText failed"
MsgParse == "Model response is not valid JSON"
MsgGate == "Generated edits did not include required unit-test updates for the detected tech stack. Please provide feedback and retry."
MsgNoEdits == "Failed to generate edits."
MsgMissingContext == "Run is missing proposal context."
MsgRunNotFound == "Run not found"
MsgWrite == "write failed"
MsgPublish == "Failed creating merge request"
MsgFeedbackStore == "feedback store failed"
MsgOutside == "Invalid file path outside repo"

(***************************************************************************)
(* The run store (store.ts, found in instructions.ts lines 63-84).        *)
(***************************************************************************)
\* the run ids randomUUID gives out: the model follows one run
RunIds == {1}

RecordFields == {"runId", "input", "status", "task", "repo", "proposal", "stagedEdits",
                 "branchName", "diffPreview", "testReport", "feedbackHistory",
                 "finalSummary", "mergeRequestUrl", "error"}

\* optional structured fields are <<>> (undefined) or <<value>>
None == <<>>
Some(v) == <<v>>

\* putRun: runStore.set(record.runId, record)
putRun(st, record) ==
    [id \in DOMAIN st \cup {record.runId} |-> IF id = record.runId THEN record ELSE st[id]]

\* updateRun: { ...existing, ...update } stored under runId
MergeRecord(existing, update) ==
    [f \in DOMAIN existing \cup DOMAIN update |->
        IF f \in DOMAIN update THEN update[f] ELSE existing[f]]

\* an updateRun that merges the update into every stored record
updateRunEveryRecord(st, runId, update) ==
    [id \in DOMAIN st |-> MergeRecord(st[id], update)]

\* updateRun on a stored run id (the throw on an unknown id is in StoreUpdate)
updateRun(st, runId, update) ==
    [st EXCEPT ![runId] = MergeRecord(st[runId], update)]

\* no call of the store made yet
StoreCallIdle ==
    [n |-> 0, op |-> "none", runId |-> 0, update |-> <<>>, threw |-> FALSE,
     result |-> <<>>]


(***************************************************************************)
(* Paths of the working copy (src/lib/agent/tools/repo.ts,                 *)
(* resolveInsideRepo).  path.resolve is followed on POSIX paths: a path is *)
(* split on the slash, empty and dot segments are dropped and a dot-dot    *)
(* segment removes the segment before it, never the root.                  *)
(***************************************************************************)
\* input.repoPath of the runs the model follows: /w/r
RepoPath == <<"/", "w", "/", "r">>

RECURSIVE SplitPath(_, _, _)
\* path.split("/")
SplitPath(path, i, current) ==
    IF i > Len(path) THEN <<current>>
    ELSE IF path[i] = "/" THEN <<current>> \o SplitPath(path, i + 1, <<>>)
    ELSE SplitPath(path, i + 1, Append(current, path[i]))

RECURSIVE NormalizeSegments(_, _, _)
NormalizeSegments(segments, i, out) ==
    IF i > Len(segments) THEN out
    ELSE IF segments[i] = <<>> \/ segments[i] = <<".">>
    THEN NormalizeSegments(segments, i + 1, out)
    ELSE IF segments[i] = <<".", ".">>
    THEN NormalizeSegments(segments, i + 1,
                           IF Len(out) = 0 THEN out ELSE SubSeq(out, 1, Len(out) - 1))
    ELSE NormalizeSegments(segments, i + 1, Append(out, segments[i]))

\* the segments of path.resolve(from, to) for an absolute from
ResolveSegments(from, to) ==
    IF Len(to) > 0 /\ to[1] = "/"
    THEN NormalizeSegments(SplitPath(to, 1, <<>>), 1, <<>>)
    ELSE NormalizeSegments(SplitPath(from, 1, <<>>) \o SplitPath(to, 1, <<>>), 1, <<>>)

RECURSIVE JoinSegments(_, _)
JoinSegments(segments, i) ==
    IF i > Len(segments) THEN <<>>
    ELSE <<"/">> \o segments[i] \o JoinSegments(segments, i + 1)

\* the absolute path of the segments; the root is /
PathText(segments) == IF Len(segments) = 0 THEN <<"/">> ELSE JoinSegments(segments, 1)

\* a check that compares with the root without the separator after it
resolveInsideRepoNoSeparator(repoPath, relativePath) ==
    LET resolved == PathText(ResolveSegments(repoPath, relativePath))
        normalizedRoot == PathText(ResolveSegments(repoPath, <<>>))
    IN  IF ~StartsWith(resolved, normalizedRoot) /\ resolved # normalizedRoot
        THEN None
        ELSE Some(resolved)

\* resolveInsideRepo: the resolved path, or None for the throw
resolveInsideRepo(repoPath, relativePath) ==
    LET resolved == PathText(ResolveSegments(repoPath, relativePath))
        normalizedRoot == PathText(ResolveSegments(repoPath, <<>>))
    IN  IF ~StartsWith(resolved, normalizedRoot \o <<"/">>) /\ resolved # normalizedRoot
        THEN None
        ELSE Some(resolved)

(***************************************************************************)
(* The gated edit loop (generateEditsWithUnitTestGate).                    *)
(* A loop value holds the loop's locals while a generateText request is    *)
(* awaited: attempt, feedback, and the feedback of every request sent.     *)
(***************************************************************************)
\* an off-by-one bound that lets the loop send a third request
MaxEditAttemptsOffByOne == 2 + 1

MAX_EDIT_ATTEMPTS == 2

UNIT_TEST_RETRY_FEEDBACK ==
    <<"Revise the edits to include unit tests aligned to the detected stack and changed behavior.">>

InitialDraftFeedback == <<"Initial implementation draft for human review.">>
NoAdditionalFeedback == <<"No additional feedback">>

\* feedback = `${feedback}\n${UNIT_TEST_RETRY_FEEDBACK}`
NextFeedback(feedback) == feedback \o <<"\n">> \o UNIT_TEST_RETRY_FEEDBACK

LoopIdle ==
    [attempt |-> 0, feedback |-> <<>>, sent |-> <<>>, received |-> <<>>,
     outcome |-> "idle", payload |-> Payload(<<>>), error |-> Undefined]

\* entering the loop: attempt 1's request is sent with the initial feedback
LoopStart(feedback) ==
    IF 1 <= MAX_EDIT_ATTEMPTS
    THEN [LoopIdle EXCEPT !.attempt = 1, !.feedback = feedback, !.sent = <<feedback>>,
                          !.outcome = "running"]
    ELSE [LoopIdle EXCEPT !.attempt = 1, !.feedback = feedback,
                          !.outcome = "threw", !.error = MsgNoEdits]

\* the continuation after the awaited generateText of one attempt: parse, gate,
\* return or append the corrective instruction and send the next request
LoopStep(loop, response, repo) ==
    IF response.kind = "throw"
    THEN [loop EXCEPT !.outcome = "threw", !.error = MsgLlm]
    ELSE IF response.kind = "unparseable"
    THEN [loop EXCEPT !.outcome = "threw", !.error = MsgParse]
    ELSE IF passesUnitTestGate(response.payload.edits, repo)
    THEN [loop EXCEPT !.outcome = "returned", !.payload = response.payload,
                      !.received = Append(@, response.payload.edits)]
    ELSE IF loop.attempt + 1 <= MAX_EDIT_ATTEMPTS
    THEN [loop EXCEPT !.attempt = @ + 1,
                      !.feedback = NextFeedback(@),
                      !.sent = Append(@, NextFeedback(loop.feedback)),
                      !.received = Append(@, response.payload.edits)]
    ELSE [loop EXCEPT !.attempt = @ + 1,
                      !.feedback = NextFeedback(@),
                      !.received = Append(@, response.payload.edits),
                      !.outcome = "threw", !.error = MsgGate]

(***************************************************************************)
(* State.                                                                  *)
(***************************************************************************)
VARIABLES
    store,      \* runStore: run id -> AgentRunRecord (domain = the ids stored)
    start,      \* per run id: the startAgentRun call that created it
    calls,      \* per call number: one approveOrRejectRun call
    fs,         \* working tree: path -> content, or Absent
    applied,    \* history: run ids whose status has been written as applying
    verify,     \* per call number: one runTestsAndCollectCoverage call
    gate,       \* one evaluation of passesUnitTestGate on a candidate edit set
    parser,     \* one application of parseJsonObject to a response text
    coverage,   \* one coverage report parsed and mapped onto an edit set
    storeCall   \* the last call of putRun, getRun or updateRun made on its own

vars == <<store, start, calls, fs, applied, verify, gate, parser, coverage, storeCall>>

CallIds == 1..MaxCalls

(***************************************************************************)
(* startAgentRun and the stage graph.                                      *)
(***************************************************************************)
StartIdle ==
    [pc |-> "idle", input |-> [dryRun |-> TRUE], task |-> Undefined, repo |-> None,
     feedbackBias |-> Undefined, branchName |-> Undefined, proposal |-> Undefined,
     stagedEdits |-> None, diffPreview |-> Undefined, loop |-> LoopIdle,
     git |-> <<>>, threw |-> FALSE, error |-> Undefined, result |-> None]

\* baseRecord of startAgentRun
BaseRecord(runId, input) ==
    [runId |-> runId, input |-> input, status |-> "awaiting_approval",
     task |-> Undefined, repo |-> None, proposal |-> Undefined, stagedEdits |-> None,
     branchName |-> Undefined, diffPreview |-> Undefined, testReport |-> None,
     feedbackHistory |-> <<>>, finalSummary |-> Undefined,
     mergeRequestUrl |-> Undefined, error |-> Undefined]

\* the update of the success path of startAgentRun
StartSuccessUpdate(g) ==
    [task |-> g.task, repo |-> g.repo, proposal |-> g.proposal,
     branchName |-> g.branchName, stagedEdits |-> g.stagedEdits,
     diffPreview |-> g.diffPreview]

\* a catch block that records the error and leaves the status as it is
StartFailedUpdateKeepsStatus(message) == [error |-> message]

\* the update of the catch block of startAgentRun
StartFailedUpdate(message) == [status |-> "failed", error |-> message]

\* history of status writes: the run ids ever written as applying
NoteApplied(runId, update) ==
    IF "status" \in DOMAIN update /\ update.status = "applying"
    THEN applied \cup {runId} ELSE applied

\* a stage threw: the catch block marks the run failed and returns the record
\* (locals is the start table as the failing stage leaves it)
StartCatchFrom(locals, r, message) ==
    /\ store' = updateRun(store, r, StartFailedUpdate(message))
    /\ applied' = NoteApplied(r, StartFailedUpdate(message))
    /\ start' = [locals EXCEPT ![r].pc = "returned", ![r].threw = TRUE,
                               ![r].error = message, ![r].result = Some(store'[r])]

StartCatch(r, message) == StartCatchFrom(start, r, message)

WorkflowUnchangedVerify == UNCHANGED <<verify, gate, parser, coverage, storeCall>>

\* startAgentRun up to the first await: randomUUID, putRun(baseRecord), graph.invoke
StartAgentRun(r, dryRun) ==
    /\ r \in RunIds
    /\ r \notin DOMAIN store
    /\ \A q \in RunIds : q < r => q \in DOMAIN store
    /\ store' = putRun(store, BaseRecord(r, [dryRun |-> dryRun]))
    /\ start' = [start EXCEPT ![r] = [StartIdle EXCEPT !.pc = "loadTask",
                                                      !.input = [dryRun |-> dryRun]]]
    /\ UNCHANGED <<calls, fs, applied>>
    /\ WorkflowUnchangedVerify

\* a graph whose edge from loadTask leads past scanRepo
LoadTaskThenLoadFeedback(r, ok) ==
    /\ start[r].pc = "loadTask"
    /\ IF ok
       THEN /\ start' = [start EXCEPT ![r].pc = "loadFeedback", ![r].task = "task"]
            /\ UNCHANGED <<store, applied>>
       ELSE StartCatch(r, MsgFetchTask)
    /\ UNCHANGED <<calls, fs>>
    /\ WorkflowUnchangedVerify

\* node loadTask: fetchTask returns or throws
LoadTask(r, ok) ==
    /\ start[r].pc = "loadTask"
    /\ IF ok
       THEN /\ start' = [start EXCEPT ![r].pc = "scanRepo", ![r].task = "task"]
            /\ UNCHANGED <<store, applied>>
       ELSE StartCatch(r, MsgFetchTask)
    /\ UNCHANGED <<calls, fs>>
    /\ WorkflowUnchangedVerify

\* node scanRepo: scanRepository returns a snapshot or throws
ScanRepo(r, ok, repo) ==
    /\ start[r].pc = "scanRepo"
    /\ IF ok
       THEN /\ start' = [start EXCEPT ![r].pc = "loadFeedback", ![r].repo = Some(repo)]
            /\ UNCHANGED <<store, applied>>
       ELSE StartCatch(r, MsgScan)
    /\ UNCHANGED <<calls, fs>>
    /\ WorkflowUnchangedVerify

\* node loadFeedback: summarizeFeedbackBias never throws (readFeedback catches)
LoadFeedback(r) ==
    /\ start[r].pc = "loadFeedback"
    /\ start' = [start EXCEPT ![r].pc = "prepareBranch", ![r].feedbackBias = "bias"]
    /\ UNCHANGED <<store, applied, calls, fs>>
    /\ WorkflowUnchangedVerify

\* a prepareBranch that checks out the target branch before it looks at the
\* working tree
PrepareBranchCheckoutFirst(r, status) ==
    /\ start[r].pc = "prepareBranch"
    /\ IF start[r].input.dryRun
       THEN /\ start' = [start EXCEPT ![r].pc = "propose", ![r].branchName = "branch"]
            /\ UNCHANGED <<store, applied>>
       ELSE IF status = "clean"
       THEN /\ start' = [start EXCEPT ![r].pc = "checkout"]
            /\ UNCHANGED <<store, applied>>
       ELSE IF status = "dirty"
       THEN StartCatchFrom([start EXCEPT ![r].git = Append(@, "checkout")], r, MsgDirty)
       ELSE StartCatch(r, MsgGit)
    /\ UNCHANGED <<calls, fs>>
    /\ WorkflowUnchangedVerify

\* node prepareBranch, up to the result of ensureCleanWorktree:
\* dry run returns at once; otherwise git status decides
PrepareBranch(r, status) ==
    /\ start[r].pc = "prepareBranch"
    /\ IF start[r].input.dryRun
       THEN /\ start' = [start EXCEPT ![r].pc = "propose", ![r].branchName = "branch"]
            /\ UNCHANGED <<store, applied>>
       ELSE IF status = "clean"
       THEN /\ start' = [start EXCEPT ![r].pc = "checkout"]
            /\ UNCHANGED <<store, applied>>
       ELSE IF status = "dirty"
       THEN StartCatch(r, MsgDirty)
       ELSE StartCatch(r, MsgGit)
    /\ UNCHANGED <<calls, fs>>
    /\ WorkflowUnchangedVerify

\* createOrCheckoutBranch after the clean check: git checkout of the branch
Checkout(r, ok) ==
    /\ start[r].pc = "checkout"
    /\ IF ok
       THEN /\ start' = [start EXCEPT ![r].pc = "propose", ![r].branchName = "branch",
                                      ![r].git = Append(@, "checkout")]
            /\ UNCHANGED <<store, applied>>
       ELSE StartCatch(r, MsgGit)
    /\ UNCHANGED <<calls, fs>>
    /\ WorkflowUnchangedVerify

\* a propose node that stores the context gathered so far in the run record
ProposeStoresContext(r, kind) ==
    /\ start[r].pc = "propose"
    /\ IF start[r].task = Undefined \/ start[r].repo = None
          \/ start[r].feedbackBias = Undefined
       THEN StartCatch(r, "Missing context for proposal")
       ELSE IF kind = "throw"
       THEN StartCatch(r, MsgLlm)
       ELSE IF kind = "unparseable"
       THEN StartCatch(r, MsgParse)
       ELSE IF LoopStart(InitialDraftFeedback).outcome = "threw"
       THEN StartCatch(r, LoopStart(InitialDraftFeedback).error)
       ELSE /\ start' = [start EXCEPT ![r].pc = "draftChanges",
                                      ![r].proposal = "proposal",
                                      ![r].loop = LoopStart(InitialDraftFeedback)]
            /\ store' = updateRun(store, r,
                              [task |-> start[r].task, repo |-> start[r].repo,
                               proposal |-> "proposal",
                               branchName |-> start[r].branchName])
            /\ UNCHANGED applied
    /\ UNCHANGED <<calls, fs>>
    /\ WorkflowUnchangedVerify

\* node propose: generateText + parseJsonObject
Propose(r, kind) ==
    /\ start[r].pc = "propose"
    /\ IF start[r].task = Undefined \/ start[r].repo = None
          \/ start[r].feedbackBias = Undefined
       THEN StartCatch(r, "Missing context for proposal")
       ELSE IF kind = "throw"
       THEN StartCatch(r, MsgLlm)
       ELSE IF kind = "unparseable"
       THEN StartCatch(r, MsgParse)
       ELSE IF LoopStart(InitialDraftFeedback).outcome = "threw"
       THEN StartCatch(r, LoopStart(InitialDraftFeedback).error)
       ELSE /\ start' = [start EXCEPT ![r].pc = "draftChanges",
                                      ![r].proposal = "proposal",
                                      ![r].loop = LoopStart(InitialDraftFeedback)]
            /\ UNCHANGED <<store, applied>>
    /\ UNCHANGED <<calls, fs>>
    /\ WorkflowUnchangedVerify

\* buildPreviewDiff reads edits.slice(0, 20)
PreviewEdits == 20

\* node draftChanges: the continuation of one awaited request of the gated loop
DraftRequest(r, response) ==
    /\ start[r].pc = "draftChanges"
    /\ start[r].loop.outcome = "running"
    /\ LET loop == LoopStep(start[r].loop, response, start[r].repo[1])
       IN  IF loop.outcome = "threw"
           THEN StartCatchFrom([start EXCEPT ![r].loop = loop], r, loop.error)
           ELSE /\ start' = [start EXCEPT ![r].loop = loop]
                /\ UNCHANGED <<store, applied>>
    /\ UNCHANGED <<calls, fs>>
    /\ WorkflowUnchangedVerify

\* node draftChanges after the loop returned: buildPreviewDiff, then the graph
\* ends and startAgentRun stores the result and returns the record
DraftStore(r) ==
    /\ start[r].pc = "draftChanges"
    /\ start[r].loop.outcome = "returned"
    /\ LET stagedEdits == start[r].loop.payload.edits
           g == [start[r] EXCEPT !.stagedEdits = Some(stagedEdits),
                                 !.diffPreview = "preview"]
       IN  IF \E i \in 1..Len(stagedEdits) :
                 /\ i <= PreviewEdits
                 /\ resolveInsideRepo(RepoPath, stagedEdits[i].path) = None
           THEN StartCatch(r, MsgOutside)
           ELSE /\ store' = updateRun(store, r, StartSuccessUpdate(g))
                /\ applied' = NoteApplied(r, StartSuccessUpdate(g))
                /\ start' = [start EXCEPT ![r] = [g EXCEPT !.pc = "returned",
                                                          !.result = Some(store'[r])]]
    /\ UNCHANGED <<calls, fs>>
    /\ WorkflowUnchangedVerify

(***************************************************************************)
(* approveOrRejectRun, finalizeApprovedRun and resolveFinalEdits.          *)
(***************************************************************************)
CallIdle ==
    [pc |-> "idle", runId |-> 0, approved |-> FALSE, feedback |-> NoFeedback,
     run |-> None, loop |-> LoopIdle, payload |-> Payload(<<>>), reused |-> FALSE,
     idx |-> 1, wrote |-> <<>>, git |-> <<>>, mergeRequestUrl |-> Undefined,
     summary |-> Undefined, failedAt |-> "none", error |-> Undefined, result |-> None]

DefaultRejectFeedback == <<"Rejected without detailed feedback.">>

\* params.feedback?.trim() || "Rejected without detailed feedback."
RejectFeedback(feedback) ==
    IF feedback.given /\ Len(Trim(feedback.text)) > 0
    THEN Trim(feedback.text) ELSE DefaultRejectFeedback

\* a reject branch that stores the reviewer's text as sent, neither trimmed
\* nor replaced by the default
RejectUpdateUntrimmed(run, feedback) ==
    [status |-> "rejected",
     feedbackHistory |->
        Append(run.feedbackHistory,
               IF feedback.given THEN feedback.text ELSE DefaultRejectFeedback),
     finalSummary |-> "Run rejected by reviewer."]

\* the update of the reject branch
RejectUpdate(run, feedback) ==
    [status |-> "rejected",
     feedbackHistory |-> Append(run.feedbackHistory, RejectFeedback(feedback)),
     finalSummary |-> "Run rejected by reviewer."]

\* an approval that goes on to finalize without recording the applying status
ApplyingUpdateSkipped == [status |-> "awaiting_approval"]

\* updateRun(run.runId, { status: "applying" })
ApplyingUpdate == [status |-> "applying"]

\* the update after finalizeApprovedRun and appendFeedback returned
DoneUpdate(run, feedback, summary, mergeRequestUrl) ==
    [status |-> "done", finalSummary |-> summary, mergeRequestUrl |-> mergeRequestUrl,
     feedbackHistory |-> IF Truthy(feedback)
                         THEN Append(run.feedbackHistory, feedback.text)
                         ELSE run.feedbackHistory]

\* the guard of finalizeApprovedRun
MissingProposalContext(run) ==
    \/ run.task = Undefined
    \/ run.repo = None
    \/ run.proposal = Undefined
    \/ run.branchName = Undefined

\* a reuse condition that does not look at the reviewer's feedback
UsesStagedEditsWhateverFeedback(run, feedback) ==
    /\ run.stagedEdits # None
    /\ Len(run.stagedEdits[1]) > 0
    /\ run.repo # None
    /\ passesUnitTestGate(run.stagedEdits[1], run.repo[1])

\* the condition under which resolveFinalEdits returns the staged edits
UsesStagedEdits(run, feedback) ==
    /\ run.stagedEdits # None
    /\ Len(run.stagedEdits[1]) > 0
    /\ run.repo # None
    /\ (~Truthy(feedback) \/ Len(Trim(feedback.text)) = 0)
    /\ passesUnitTestGate(run.stagedEdits[1], run.repo[1])

StagedPayload(run) ==
    [edits |-> run.stagedEdits[1],
     summary |-> "Applied previously staged draft edits after approval."]

\* feedback ?? "No additional feedback"
FinalizeFeedback(feedback) ==
    IF feedback.given THEN feedback.text ELSE NoAdditionalFeedback

\* the call ends by throwing: nothing further is written to the store
CallThrow(locals, c, where, message) ==
    calls' = [locals EXCEPT ![c].pc = "thrown", ![c].failedAt = where,
                            ![c].error = message]

\* an approveOrRejectRun that accepts a decision only on a run that awaits one
ApproveOrRejectRunAwaitingOnly(c, runId, approved, feedback) ==
    /\ calls[c].pc = "idle"
    /\ \A d \in DOMAIN calls : d < c => calls[d].pc # "idle"
    /\ LET entered == [calls EXCEPT ![c].runId = runId, ![c].approved = approved,
                                    ![c].feedback = feedback]
       IN  IF runId \notin DOMAIN store
           THEN /\ CallThrow(entered, c, "getRun", MsgRunNotFound)
                /\ UNCHANGED <<store, applied>>
           ELSE LET run == store[runId]
                    withRun == [entered EXCEPT ![c].run = Some(run)]
                IN  IF run.status # "awaiting_approval"
                    THEN /\ CallThrow(withRun, c, "status", "Run is not awaiting approval")
                         /\ UNCHANGED <<store, applied>>
                    ELSE IF ~approved
                    THEN /\ calls' = [withRun EXCEPT ![c].pc = "rejectAppend"]
                         /\ UNCHANGED <<store, applied>>
                    ELSE /\ store' = updateRun(store, runId, ApplyingUpdate)
                         /\ applied' = NoteApplied(runId, ApplyingUpdate)
                         /\ IF UsesStagedEdits(run, feedback)
                            THEN calls' = [withRun EXCEPT ![c].pc = "write",
                                                          ![c].reused = TRUE,
                                                          ![c].payload = StagedPayload(run)]
                            ELSE calls' = [withRun EXCEPT ![c].pc = "gate",
                                              ![c].loop = LoopStart(FinalizeFeedback(feedback))]
    /\ UNCHANGED <<start, fs>>
    /\ WorkflowUnchangedVerify

\* approveOrRejectRun up to its first await
ApproveOrRejectRun(c, runId, approved, feedback) ==
    /\ calls[c].pc = "idle"
    /\ \A d \in DOMAIN calls : d < c => calls[d].pc # "idle"
    /\ LET entered == [calls EXCEPT ![c].runId = runId, ![c].approved = approved,
                                    ![c].feedback = feedback]
       IN  IF runId \notin DOMAIN store
           THEN /\ CallThrow(entered, c, "getRun", MsgRunNotFound)
                /\ UNCHANGED <<store, applied>>
           ELSE LET run == store[runId]
                    withRun == [entered EXCEPT ![c].run = Some(run)]
                IN  IF ~approved
                    THEN /\ calls' = [withRun EXCEPT ![c].pc = "rejectAppend"]
                         /\ UNCHANGED <<store, applied>>
                    ELSE /\ store' = updateRun(store, runId, ApplyingUpdate)
                         /\ applied' = NoteApplied(runId, ApplyingUpdate)
                         /\ IF MissingProposalContext(run)
                            THEN CallThrow(withRun, c, "context", MsgMissingContext)
                            ELSE IF UsesStagedEdits(run, feedback)
                            THEN calls' = [withRun EXCEPT ![c].pc = "write",
                                                          ![c].reused = TRUE,
                                                          ![c].payload = StagedPayload(run)]
                            ELSE IF LoopStart(FinalizeFeedback(feedback)).outcome = "threw"
                            THEN CallThrow([withRun EXCEPT ![c].loop =
                                                LoopStart(FinalizeFeedback(feedback))],
                                           c, "resolve", MsgNoEdits)
                            ELSE calls' = [withRun EXCEPT ![c].pc = "gate",
                                              ![c].loop = LoopStart(FinalizeFeedback(feedback))]
    /\ UNCHANGED <<start, fs>>
    /\ WorkflowUnchangedVerify

\* reject branch: appendFeedback returned (or threw), then updateRun and return
RejectAppend(c, ok) ==
    /\ calls[c].pc = "rejectAppend"
    /\ LET run == calls[c].run[1]
           update == RejectUpdate(run, calls[c].feedback)
       IN  IF ok
           THEN /\ store' = updateRun(store, run.runId, update)
                /\ applied' = NoteApplied(run.runId, update)
                /\ calls' = [calls EXCEPT ![c].pc = "returned",
                                          ![c].result = Some(store'[run.runId])]
           ELSE /\ CallThrow(calls, c, "appendFeedback", MsgFeedbackStore)
                /\ UNCHANGED <<store, applied>>
    /\ UNCHANGED <<start, fs>>
    /\ WorkflowUnchangedVerify

\* resolveFinalEdits through the gated loop: the continuation of one request
GateRequest(c, response) ==
    /\ calls[c].pc = "gate"
    /\ LET loop == LoopStep(calls[c].loop, response, calls[c].run[1].repo[1])
           looped == [calls EXCEPT ![c].loop = loop]
       IN  IF loop.outcome = "threw"
           THEN CallThrow(looped, c, "resolve", loop.error)
           ELSE IF loop.outcome = "returned"
           THEN calls' = [looped EXCEPT ![c].pc = "write", ![c].payload = loop.payload]
           ELSE calls' = looped
    /\ UNCHANGED <<store, start, fs, applied>>
    /\ WorkflowUnchangedVerify


\* writeFile(repoPath, relativePath, content) on a working tree
writeFile(tree, relativePath, content) == [tree EXCEPT ![relativePath] = content]

\* finalizeApprovedRun: one awaited writeFile of the write loop
WriteEdit(c, ok) ==
    /\ calls[c].pc = "write"
    /\ LET edits == calls[c].payload.edits
           edit == edits[calls[c].idx]
       IN  IF resolveInsideRepo(RepoPath, edit.path) = None
           THEN /\ CallThrow(calls, c, "write", MsgOutside)
                /\ UNCHANGED fs
           ELSE IF ok
           THEN /\ fs' = writeFile(fs, edit.path, edit.content)
                /\ calls' = [calls EXCEPT ![c].wrote = Append(@, edit.path),
                                          ![c].idx = @ + 1,
                                          ![c].pc = IF calls[c].idx = Len(edits)
                                                    THEN "diff" ELSE "write"]
           ELSE /\ CallThrow(calls, c, "write", MsgWrite)
                /\ UNCHANGED fs
    /\ UNCHANGED <<store, start, applied>>
    /\ WorkflowUnchangedVerify

\* a finalize that goes on to commit whatever the dry-run flag says
GetDiffThenAlwaysCommit(c, ok) ==
    /\ calls[c].pc = "diff"
    /\ LET run == calls[c].run[1]
       IN  IF ok
           THEN /\ store' = updateRun(store, run.runId, [diffPreview |-> "diff"])
                /\ applied' = NoteApplied(run.runId, [diffPreview |-> "diff"])
                /\ calls' = [calls EXCEPT ![c].pc = "commit"]
           ELSE /\ CallThrow(calls, c, "diff", MsgGit)
                /\ UNCHANGED <<store, applied>>
    /\ UNCHANGED <<start, fs>>
    /\ WorkflowUnchangedVerify

\* finalizeApprovedRun: getDiff returned, updateRun({diffPreview}); a dry run
\* returns from finalize here
GetDiff(c, ok) ==
    /\ calls[c].pc = "diff"
    /\ LET run == calls[c].run[1]
       IN  IF ok
           THEN /\ store' = updateRun(store, run.runId, [diffPreview |-> "diff"])
                /\ applied' = NoteApplied(run.runId, [diffPreview |-> "diff"])
                /\ calls' = IF run.input.dryRun
                            THEN [calls EXCEPT ![c].pc = "approveAppend",
                                               ![c].summary = "summary, dry-run"]
                            ELSE [calls EXCEPT ![c].pc = "commit"]
           ELSE /\ CallThrow(calls, c, "diff", MsgGit)
                /\ UNCHANGED <<store, applied>>
    /\ UNCHANGED <<start, fs>>
    /\ WorkflowUnchangedVerify

\* a finalize that requests publication right after the commit, before the push
CommitThenPublish(c, ok) ==
    /\ calls[c].pc = "commit"
    /\ IF ok
       THEN calls' = [calls EXCEPT ![c].pc = "publish", ![c].git = Append(@, "commit")]
       ELSE CallThrow(calls, c, "commit", MsgGit)
    /\ UNCHANGED <<store, start, fs, applied>>
    /\ WorkflowUnchangedVerify

\* finalizeApprovedRun: stageCommitAndGetSha
Commit(c, ok) ==
    /\ calls[c].pc = "commit"
    /\ IF ok
       THEN calls' = [calls EXCEPT ![c].pc = "push", ![c].git = Append(@, "commit")]
       ELSE CallThrow(calls, c, "commit", MsgGit)
    /\ UNCHANGED <<store, start, fs, applied>>
    /\ WorkflowUnchangedVerify

\* finalizeApprovedRun: pushBranch
Push(c, ok) ==
    /\ calls[c].pc = "push"
    /\ IF ok
       THEN calls' = [calls EXCEPT ![c].pc = "publish", ![c].git = Append(@, "push")]
       ELSE CallThrow(calls, c, "push", MsgGit)
    /\ UNCHANGED <<store, start, fs, applied>>
    /\ WorkflowUnchangedVerify

\* finalizeApprovedRun: createMergeRequest gives a URL, undefined, or throws
Publish(c, outcome) ==
    /\ calls[c].pc = "publish"
    /\ IF outcome = "throw"
       THEN CallThrow(calls, c, "publish", MsgPublish)
       ELSE calls' = [calls EXCEPT ![c].pc = "approveAppend",
                                   ![c].git = Append(@, "publish"),
                                   ![c].mergeRequestUrl =
                                       IF outcome = "url" THEN "url" ELSE Undefined,
                                   ![c].summary =
                                       IF outcome = "url" THEN "summary, merge request"
                                       ELSE "summary"]
    /\ UNCHANGED <<store, start, fs, applied>>
    /\ WorkflowUnchangedVerify

\* approve branch: appendFeedback returned (or threw), then updateRun(done)
ApproveAppend(c, ok) ==
    /\ calls[c].pc = "approveAppend"
    /\ LET run == calls[c].run[1]
           update == DoneUpdate(run, calls[c].feedback, calls[c].summary,
                                calls[c].mergeRequestUrl)
       IN  IF ok
           THEN /\ store' = updateRun(store, run.runId, update)
                /\ applied' = NoteApplied(run.runId, update)
                /\ calls' = [calls EXCEPT ![c].pc = "returned",
                                          ![c].result = Some(store'[run.runId])]
           ELSE /\ CallThrow(calls, c, "appendFeedback", MsgFeedbackStore)
                /\ UNCHANGED <<store, applied>>
    /\ UNCHANGED <<start, fs>>
    /\ WorkflowUnchangedVerify

(***************************************************************************)
(* The verification engine (runTestsAndCollectCoverage).                   *)
(***************************************************************************)
VerifyIds == 1..MaxVerifyCalls

\* the working tree a verification attempt starts on: a file with content,
\* a missing file and an empty file
P_package_json == <<"p", "a", "c", "k", "a", "g", "e", ".", "j", "s", "o", "n">>
VerifyPaths == Paths \cup {P_package_json}
VerifyTree ==
    [p \in VerifyPaths |-> IF p = P_src_a_ts THEN "orig"
                           ELSE IF p = P_package_json THEN "manifest"
                           ELSE IF p = P_readme THEN "" ELSE Absent]

\* edit sets handed to a verification attempt (the last one names a path twice)
VerifyEditSets ==
    {EditsEmpty, EditsSourceOnly, EditsWithTest, <<Edit(P_readme, "docs")>>,
     <<Edit(P_src_a_test_ts, "test"), Edit(P_src_a_test_ts, "test2")>>,
     <<Edit(P_package_json, "manifest2")>>}

\* how the test command can end
ExecOutcomes == {"exit0", "nonzero", "timeout", "maxBuffer"}

\* what the test command may leave in the tree: nothing, or one file of the
\* tree deleted or rewritten
TreesAfterCommand(tree) ==
    {tree} \cup {[tree EXCEPT ![p] = c] : p \in Paths, c \in {Absent, "generated"}}

\* the stdout and stderr the test command leaves, as lengths in characters:
\* on exit 0 they are the fields of the result, otherwise those of the error
\* (a failed edit write throws an error without them)
ExecStdout(outcome) ==
    CASE outcome = "exit0" -> 4001
      [] outcome = "nonzero" -> 4000
      [] outcome = "maxBuffer" -> 15 * 1024 * 1024 + 1
      [] OTHER -> 0

ExecStderr(outcome) ==
    CASE outcome = "exit0" -> 2001
      [] outcome = "nonzero" -> 4001
      [] outcome = "maxBuffer" -> 12
      [] OTHER -> 0

\* truncate(value, max), on the length of value: the first max characters
\* and the 15 characters of "\n...<truncated>"
truncate(length, max) == IF length <= max THEN length ELSE max + 15

\* the report of a call for which no strategy was found
NoStrategyNotes ==
    <<"No supported coverage strategy detected.",
      "Supported strategies: JS/TS (lcov), Python pytest-cov XML, Go coverprofile, Java JaCoCo XML.">>

\* a report that claims the tests were executed
NoStrategyReportExecuted ==
    [executed |-> TRUE, success |-> FALSE, failureCause |-> Undefined,
     overallLineCoveragePercent |-> None, fileCoverage |-> <<>>,
     notes |-> NoStrategyNotes,
     stdoutSnippet |-> None, stderrSnippet |-> None]

\* the coverage fields of an executed report are computed in the coverage
\* specification
NoStrategyReport ==
    [executed |-> FALSE, success |-> FALSE, failureCause |-> Undefined,
     overallLineCoveragePercent |-> None, fileCoverage |-> <<>>,
     notes |-> NoStrategyNotes,
     stdoutSnippet |-> None, stderrSnippet |-> None]

\* the report of the try block (exit 0)
SuccessReport(outcome) ==
    [executed |-> TRUE, success |-> TRUE, failureCause |-> Undefined,
     stdoutSnippet |-> Some(truncate(ExecStdout(outcome), 4000)),
     stderrSnippet |-> Some(truncate(ExecStderr(outcome), 2000))]

\* the report of the catch block
FailureReport(outcome) ==
    [executed |-> TRUE, success |-> FALSE, failureCause |-> Undefined,
     stdoutSnippet |-> Some(truncate(ExecStdout(outcome), 4000)),
     stderrSnippet |-> Some(truncate(ExecStderr(outcome), 4000))]

VerifyIdle ==
    [pc |-> "idle", edits |-> <<>>, originalContents |-> <<>>, idx |-> 1,
     outcome |-> "none", before |-> VerifyTree, overlapped |-> FALSE,
     strategy |-> FALSE, reads |-> {}, touched |-> {}, report |-> NoStrategyReport]

\* Map.prototype.set on a map kept as its entries in insertion order
MapSet(entries, key, value) ==
    IF \E i \in 1..Len(entries) : entries[i].key = key
    THEN [i \in 1..Len(entries) |->
            IF entries[i].key = key THEN [key |-> key, value |-> value] ELSE entries[i]]
    ELSE Append(entries, [key |-> key, value |-> value])

\* readFileIfExists: the content, or null for a missing file
readFileIfExists(tree, relativePath) == tree[relativePath]

\* a restore that tests the snapshot for falsiness (!content), and so deletes
\* a file whose original content was the empty string
RestoreEntryFalsy(tree, entry) ==
    IF entry.value = Absent \/ entry.value = ""
    THEN [tree EXCEPT ![entry.key] = Absent]
    ELSE [tree EXCEPT ![entry.key] = entry.value]

\* one iteration of the finally block: delete the file when the snapshot holds
\* null, write the snapshot back otherwise
RestoreEntry(tree, entry) ==
    IF entry.value = Absent
    THEN [tree EXCEPT ![entry.key] = Absent]
    ELSE writeFile(tree, entry.key, entry.value)

\* some other verification attempt is between its first and last step
OthersActive(v) ==
    \E w \in DOMAIN verify : w # v /\ verify[w].pc \notin {"idle", "returned"}

\* every attempt in flight notes that it shares the tree with another one
NoteOverlap(table, v) ==
    [w \in DOMAIN table |->
        IF /\ table[w].pc \notin {"idle", "returned"}
           /\ \E x \in DOMAIN table : x # w /\ table[x].pc \notin {"idle", "returned"}
        THEN [table[w] EXCEPT !.overlapped = TRUE]
        ELSE table[w]]

VerifyUnchangedWorkflow == UNCHANGED <<store, start, calls, applied, gate, parser, coverage, storeCall>>

\* the files whose content resolveTestStrategy reads: resolveNodeStrategy reads
\* package.json when the repository has TypeScript or JavaScript files; every
\* other probe is an fs.access
DetectionReads(hasNode) == IF hasNode THEN {P_package_json} ELSE {}

\* what resolveTestStrategy meets: a Node repository with a test script, one
\* without, and a repository of no supported language (a strategy found for a
\* Python, Go or Java repository differs from the first only in not reading
\* package.json)
Detections ==
    {[hasNode |-> TRUE, hasStrategy |-> TRUE], [hasNode |-> TRUE, hasStrategy |-> FALSE],
     [hasNode |-> FALSE, hasStrategy |-> FALSE]}

\* a call that waits until no other attempt is in flight on the working tree
VerifyBeginSerialized(v, edits, hasNode, hasStrategy) ==
    /\ verify[v].pc = "idle"
    /\ \A w \in DOMAIN verify : w < v => verify[w].pc # "idle"
    /\ ~OthersActive(v)
    /\ LET entered == [verify[v] EXCEPT !.edits = edits, !.before = fs,
                                        !.strategy = hasStrategy,
                                        !.reads = DetectionReads(hasNode)]
       IN  verify' =
              [verify EXCEPT ![v] =
                  IF ~hasStrategy
                  THEN [entered EXCEPT !.pc = "returned"]
                  ELSE [entered EXCEPT !.pc = IF Len(edits) = 0 THEN "exec" ELSE "snapshot"]]
    /\ UNCHANGED fs
    /\ VerifyUnchangedWorkflow

\* the call up to the snapshot loop: resolveTestStrategy finds a strategy or not
VerifyBegin(v, edits, hasNode, hasStrategy) ==
    /\ verify[v].pc = "idle"
    /\ \A w \in DOMAIN verify : w < v => verify[w].pc # "idle"
    /\ LET entered == [verify[v] EXCEPT !.edits = edits, !.before = fs,
                                        !.strategy = hasStrategy,
                                        !.reads = DetectionReads(hasNode)]
       IN  verify' = NoteOverlap(
              [verify EXCEPT ![v] =
                  IF ~hasStrategy
                  THEN [entered EXCEPT !.pc = "returned"]
                  ELSE [entered EXCEPT !.pc = IF Len(edits) = 0 THEN "exec" ELSE "snapshot"]],
              v)
    /\ UNCHANGED fs
    /\ VerifyUnchangedWorkflow

\* one iteration of the snapshot loop
VerifySnapshot(v) ==
    /\ verify[v].pc = "snapshot"
    /\ LET edit == verify[v].edits[verify[v].idx]
           last == verify[v].idx = Len(verify[v].edits)
       IN  IF resolveInsideRepo(RepoPath, edit.path) = None
           THEN verify' = [verify EXCEPT ![v].pc = "thrown"]
           ELSE verify' = [verify EXCEPT
                   ![v].originalContents =
                       MapSet(@, edit.path, readFileIfExists(fs, edit.path)),
                   ![v].reads = @ \cup {edit.path},
                   ![v].idx = IF last THEN 1 ELSE @ + 1,
                   ![v].pc = IF last THEN "write" ELSE "snapshot"]
    /\ UNCHANGED fs
    /\ VerifyUnchangedWorkflow

\* one writeFile of the try block; a write that fails is caught
VerifyWrite(v, ok) ==
    /\ verify[v].pc = "write"
    /\ LET edit == verify[v].edits[verify[v].idx]
           last == verify[v].idx = Len(verify[v].edits)
       IN  IF ok /\ resolveInsideRepo(RepoPath, edit.path) # None
           THEN /\ fs' = writeFile(fs, edit.path, edit.content)
                /\ verify' = [verify EXCEPT ![v].idx = IF last THEN 1 ELSE @ + 1,
                                            ![v].touched = @ \cup {edit.path},
                                            ![v].pc = IF last THEN "exec" ELSE "write"]
           ELSE /\ UNCHANGED fs
                /\ verify' = [verify EXCEPT ![v].idx = 1, ![v].pc = "parse",
                                            ![v].outcome = "writeFailed"]
    /\ VerifyUnchangedWorkflow

\* the test command ran: it ends in one of the outcomes and may change the tree
VerifyExec(v, outcome, tree) ==
    /\ verify[v].pc = "exec"
    /\ tree \in TreesAfterCommand(fs)
    /\ fs' = tree
    /\ verify' = [verify EXCEPT ![v].pc = "parse", ![v].outcome = outcome]
    /\ VerifyUnchangedWorkflow

\* parseCoverageReport returned (try or catch block): the report is built and
\* the finally block starts
VerifyParse(v) ==
    /\ verify[v].pc = "parse"
    /\ verify' = [verify EXCEPT
          ![v].report = IF verify[v].outcome = "exit0"
                        THEN SuccessReport(verify[v].outcome)
                        ELSE FailureReport(verify[v].outcome),
          ![v].idx = 1,
          ![v].pc = IF Len(verify[v].originalContents) = 0 THEN "returned" ELSE "restore"]
    /\ UNCHANGED fs
    /\ VerifyUnchangedWorkflow

\* one iteration of the finally block
VerifyRestore(v) ==
    /\ verify[v].pc = "restore"
    /\ LET entries == verify[v].originalContents
           last == verify[v].idx = Len(entries)
       IN  /\ fs' = RestoreEntry(fs, entries[verify[v].idx])
           /\ verify' = [verify EXCEPT ![v].idx = @ + 1,
                                       ![v].touched = @ \cup {entries[verify[v].idx].key},
                                       ![v].pc = IF last THEN "returned" ELSE "restore"]
    /\ VerifyUnchangedWorkflow

(***************************************************************************)
(* Coverage reports: the four report parsers, mapCoverageToChangedFiles,   *)
(* toCoverageEntry and computeOverallCoverage (src/lib/agent/tools/        *)
(* gitlab.ts).  A report file is kept as the sequence of the records its   *)
(* parser recognizes; a percentage is kept in hundredths (80.00 is 8000).  *)
(***************************************************************************)
CoverageAggregate(covered, total) == [coveredLines |-> covered, totalLines |-> total]

\* Map.prototype.get on a map kept as its entries: None for undefined
MapGet(entries, key) ==
    IF \E i \in 1..Len(entries) : entries[i].key = key
    THEN Some(entries[CHOOSE i \in 1..Len(entries) : entries[i].key = key].value)
    ELSE None

\* map.get(key) ?? { coveredLines: 0, totalLines: 0 }
MapGetOrZero(entries, key) ==
    IF MapGet(entries, key) = None THEN CoverageAggregate(0, 0) ELSE MapGet(entries, key)[1]

\* records of an lcov file
SF(file) == [kind |-> "SF", file |-> file, hits |-> 0]
DA(hits) == [kind |-> "DA", file |-> <<>>, hits |-> hits]
EndOfRecord == [kind |-> "end_of_record", file |-> <<>>, hits |-> 0]
\* a line that is none of the three, a TN: line for one
LcovOther == [kind |-> "other", file |-> <<>>, hits |-> 0]

\* flush(): the open record is stored unless currentFile is null or empty
LcovFlush(map, currentFile, covered, total) ==
    IF currentFile = None \/ currentFile = Some(<<>>) THEN map
    ELSE MapSet(map, NormalizeSlashes(currentFile[1]), CoverageAggregate(covered, total))

RECURSIVE LcovLines(_, _, _, _, _, _)
\* the for loop of parseLcovFile and the flush after it
LcovLines(lines, i, map, currentFile, covered, total) ==
    IF i > Len(lines) THEN LcovFlush(map, currentFile, covered, total)
    ELSE LET line == lines[i]
         IN  IF line.kind = "SF"
             THEN LcovLines(lines, i + 1, LcovFlush(map, currentFile, covered, total),
                            Some(line.file), 0, 0)
             ELSE IF line.kind = "DA"
             THEN LcovLines(lines, i + 1, map, currentFile,
                            IF line.hits > 0 THEN covered + 1 ELSE covered, total + 1)
             ELSE IF line.kind = "end_of_record"
             THEN LcovLines(lines, i + 1, LcovFlush(map, currentFile, covered, total),
                            None, 0, 0)
             ELSE LcovLines(lines, i + 1, map, currentFile, covered, total)

\* a report file that cannot be read gives the empty map
parseLcovFile(file) == IF file = None THEN <<>> ELSE LcovLines(file[1], 1, <<>>, None, 0, 0)

\* lines of a Go coverage profile: a line the record pattern matches, with
\* its path, numStatements and count; a mode: line; a line the pattern does
\* not match
GoRecord(file, numStmt, count) ==
    [kind |-> "record", file |-> file, numStmt |-> numStmt, count |-> count]
GoMode == [kind |-> "mode", file |-> <<>>, numStmt |-> 0, count |-> 0]
GoMalformed == [kind |-> "malformed", file |-> <<>>, numStmt |-> 0, count |-> 0]

RECURSIVE GoLinesLastRecord(_, _, _)
\* a loop that keeps the last record of a path instead of summing
GoLinesLastRecord(lines, i, map) ==
    IF i > Len(lines) THEN map
    ELSE IF lines[i].kind # "record" THEN GoLinesLastRecord(lines, i + 1, map)
    ELSE GoLinesLastRecord(lines, i + 1,
             MapSet(map, NormalizeSlashes(lines[i].file),
                    CoverageAggregate(IF lines[i].count > 0 THEN lines[i].numStmt ELSE 0,
                                      lines[i].numStmt)))

RECURSIVE GoLines(_, _, _)
\* the for loop of parseGoCoverProfile: a mode: line and a line the pattern
\* does not match are skipped
GoLines(lines, i, map) ==
    IF i > Len(lines) THEN map
    ELSE IF lines[i].kind # "record" THEN GoLines(lines, i + 1, map)
    ELSE LET line == lines[i]
             fileRef == NormalizeSlashes(line.file)
             existing == MapGetOrZero(map, fileRef)
         IN  GoLines(lines, i + 1,
                     MapSet(map, fileRef,
                            CoverageAggregate(
                                IF line.count > 0 THEN existing.coveredLines + line.numStmt
                                ELSE existing.coveredLines,
                                existing.totalLines + line.numStmt)))

parseGoCoverProfile(file) == IF file = None THEN <<>> ELSE GoLines(file[1], 1, <<>>)

\* the number of elements of hits greater than 0
CountCovered(hits) == Cardinality({k \in 1..Len(hits) : hits[k] > 0})

RECURSIVE CoberturaClasses(_, _, _)
\* the while loop of parseCoberturaXml over the class elements
CoberturaClasses(classes, i, map) ==
    IF i > Len(classes) THEN map
    ELSE LET class == classes[i]
             filename == NormalizeSlashes(class.filename)
             existing == MapGetOrZero(map, filename)
         IN  CoberturaClasses(classes, i + 1,
                 MapSet(map, filename,
                        CoverageAggregate(existing.coveredLines + CountCovered(class.hits),
                                          existing.totalLines + Len(class.hits))))

parseCoberturaXml(file) == IF file = None THEN <<>> ELSE CoberturaClasses(file[1], 1, <<>>)

RECURSIVE JaCoCoSourceFiles(_, _, _, _)
\* the inner while loop of parseJaCoCoXml: a sourcefile without a LINE counter
\* is skipped
JaCoCoSourceFiles(packageName, sources, i, map) ==
    IF i > Len(sources) THEN map
    ELSE LET source == sources[i]
             combined == IF Len(packageName) > 0
                         THEN packageName \o <<"/">> \o source.name
                         ELSE source.name
         IN  IF source.counter = None
             THEN JaCoCoSourceFiles(packageName, sources, i + 1, map)
             ELSE JaCoCoSourceFiles(packageName, sources, i + 1,
                      MapSet(map, NormalizeSlashes(combined),
                             CoverageAggregate(source.counter[1].covered,
                                 source.counter[1].missed + source.counter[1].covered)))

RECURSIVE JaCoCoPackages(_, _, _)
\* the outer while loop of parseJaCoCoXml
JaCoCoPackages(packages, i, map) ==
    IF i > Len(packages) THEN map
    ELSE JaCoCoPackages(packages, i + 1,
             JaCoCoSourceFiles(packages[i].name, packages[i].sourcefiles, 1, map))

parseJaCoCoXml(file) == IF file = None THEN <<>> ELSE JaCoCoPackages(file[1], 1, <<>>)

parseCoverageReport(parserName, file) ==
    IF parserName = "lcov" THEN parseLcovFile(file)
    ELSE IF parserName = "go-coverprofile" THEN parseGoCoverProfile(file)
    ELSE IF parserName = "cobertura-xml" THEN parseCoberturaXml(file)
    ELSE parseJaCoCoXml(file)

\* the ratios whose percentage ends in 5 thousandths and which the double
\* (covered / total) * 100 falls short of, for totals up to 640
ShortTieNumerators == {23, 41, 51, 87, 97}
DoubleFallsShort(covered, total) ==
    \E r \in ShortTieNumerators : covered * 160 = r * total

\* Number(((covered / total) * 100).toFixed(2)), in hundredths: the nearest
\* hundredth of the double, the upper one when the double is halfway
ToFixed2(covered, total) ==
    IF DoubleFallsShort(covered, total)
    THEN (10000 * covered) \div total
    ELSE (20000 * covered + total) \div (2 * total)

\* a percentage cut off after two decimals
ToFixed2Truncating(covered, total) == (10000 * covered) \div total

\* an entry whose percentage is 0 instead of null for a file without lines
toCoverageEntryZeroPercent(pathValue, agg) ==
    [path |-> NormalizeSlashes(pathValue),
     coveredLines |-> IF agg = None THEN 0 ELSE agg[1].coveredLines,
     totalLines |-> IF agg = None THEN 0 ELSE agg[1].totalLines,
     lineCoveragePercent |->
         IF agg = None \/ agg[1].totalLines = 0 THEN Some(0)
         ELSE Some(ToFixed2(agg[1].coveredLines, agg[1].totalLines))]

\* agg is None for undefined
toCoverageEntry(pathValue, agg) ==
    IF agg = None
    THEN [path |-> NormalizeSlashes(pathValue), coveredLines |-> 0, totalLines |-> 0,
          lineCoveragePercent |-> None]
    ELSE [path |-> NormalizeSlashes(pathValue),
          coveredLines |-> agg[1].coveredLines,
          totalLines |-> agg[1].totalLines,
          lineCoveragePercent |->
              IF agg[1].totalLines = 0 THEN None
              ELSE Some(ToFixed2(agg[1].coveredLines, agg[1].totalLines))]

\* an entry per distinct path only
mapCoverageToDistinctFiles(edits, coverageByFile) ==
    LET firsts == {i \in 1..Len(edits) : \A j \in 1..(i - 1) : edits[j].path # edits[i].path}
        kept == SelectSeq([i \in 1..Len(edits) |-> [i |-> i, edit |-> edits[i]]],
                          LAMBDA x : x.i \in firsts)
    IN  [k \in 1..Len(kept) |->
            toCoverageEntry(kept[k].edit.path,
                            MapGet(coverageByFile, NormalizeSlashes(kept[k].edit.path)))]

mapCoverageToChangedFiles(edits, coverageByFile) ==
    [i \in 1..Len(edits) |->
        toCoverageEntry(edits[i].path,
                        MapGet(coverageByFile, NormalizeSlashes(edits[i].path)))]

RECURSIVE SumField(_, _, _)
\* entries.reduce((sum, item) => sum + item[field], 0) over the first n entries
SumField(entries, field, n) ==
    IF n = 0 THEN 0 ELSE SumField(entries, field, n - 1) + entries[n][field]

computeOverallCoverage(entries) ==
    LET totalLines == SumField(entries, "totalLines", Len(entries))
        coveredLines == SumField(entries, "coveredLines", Len(entries))
    IN  IF totalLines = 0 THEN None ELSE Some(ToFixed2(coveredLines, totalLines))

(***************************************************************************)
(* Strategy resolution (src/lib/agent/tools/gitlab.ts, resolveTestStrategy *)
(* and the four resolvers).  The working copy is kept as the set of the    *)
(* probed files that exist, the names of the package scripts with a        *)
(* non-empty command (none when package.json cannot be read or parsed) and *)
(* the platform; a command is kept as its words.                           *)
(***************************************************************************)
HasLanguage(repo, languages) == \E language \in languages : LanguageCount(repo, language) # 0

\* exists(path.join(repoPath, name))
exists(tree, name) == name \in tree.files

detectPackageManager(tree) ==
    IF exists(tree, "pnpm-lock.yaml") THEN "pnpm"
    ELSE IF exists(tree, "yarn.lock") THEN "yarn"
    ELSE "npm"

TestStrategy(command, reportRelativePath, parserName) ==
    [command |-> command, reportRelativePath |-> reportRelativePath, parser |-> parserName]

resolveNodeStrategy(tree, repo) ==
    LET hasNode == HasLanguage(repo, {"TypeScript", "JavaScript"})
        manager == detectPackageManager(tree)
    IN  IF ~hasNode THEN None
        ELSE IF "test:coverage" \in tree.scripts
        THEN Some(TestStrategy(<<manager, "run", "test:coverage">>, "coverage/lcov.info", "lcov"))
        ELSE IF "coverage" \in tree.scripts
        THEN Some(TestStrategy(<<manager, "run", "coverage">>, "coverage/lcov.info", "lcov"))
        ELSE IF "test" \in tree.scripts
        THEN Some(TestStrategy(<<manager, "run", "test", "--", "--coverage">>,
                               "coverage/lcov.info", "lcov"))
        ELSE None

resolvePythonStrategy(tree, repo) ==
    LET hasPython == HasLanguage(repo, {"Python"})
        looksLikePythonRepo ==
            hasPython \/ exists(tree, "pyproject.toml") \/ exists(tree, "requirements.txt")
    IN  IF ~looksLikePythonRepo THEN None
        ELSE Some(TestStrategy(<<"pytest", "--cov=.", "--cov-report=xml:coverage.xml">>,
                               "coverage.xml", "cobertura-xml"))

resolveGoStrategy(tree, repo) ==
    LET hasGo == HasLanguage(repo, {"Go"}) \/ exists(tree, "go.mod")
    IN  IF ~hasGo THEN None
        ELSE Some(TestStrategy(<<"go", "test", "./...", "-covermode=count",
                                 "-coverprofile=coverage.out">>,
                               "coverage.out", "go-coverprofile"))

resolveJavaStrategy(tree, repo) ==
    LET hasJava == HasLanguage(repo, {"Java", "Kotlin"})
        hasMaven == exists(tree, "pom.xml") \/ exists(tree, "mvnw")
        maven == IF tree.platform = "win32"
                 THEN (IF exists(tree, "mvnw.cmd") THEN "mvnw.cmd" ELSE "mvn")
                 ELSE (IF exists(tree, "mvnw") THEN "./mvnw" ELSE "mvn")
        hasGradle == \/ exists(tree, "build.gradle") \/ exists(tree, "build.gradle.kts")
                     \/ exists(tree, "gradlew") \/ exists(tree, "gradlew.bat")
        gradle == IF tree.platform = "win32"
                  THEN (IF exists(tree, "gradlew.bat") THEN "gradlew.bat" ELSE "gradle")
                  ELSE (IF exists(tree, "gradlew") THEN "./gradlew" ELSE "gradle")
    IN  IF hasJava /\ hasMaven
        THEN Some(TestStrategy(<<maven, "test", "jacoco:report">>,
                               "target/site/jacoco/jacoco.xml", "jacoco-xml"))
        ELSE IF hasJava /\ hasGradle
        THEN Some(TestStrategy(<<gradle, "test", "jacocoTestReport">>,
                               "build/reports/jacoco/test/jacocoTestReport.xml",
                               "jacoco-xml"))
        ELSE None

\* a resolution in which a JS/TS repository gets the Node strategy or none
resolveTestStrategyNodeDecides(tree, repo) ==
    IF HasLanguage(repo, {"TypeScript", "JavaScript"}) THEN resolveNodeStrategy(tree, repo)
    ELSE IF resolvePythonStrategy(tree, repo) # None THEN resolvePythonStrategy(tree, repo)
    ELSE IF resolveGoStrategy(tree, repo) # None THEN resolveGoStrategy(tree, repo)
    ELSE resolveJavaStrategy(tree, repo)

resolveTestStrategy(tree, repo) ==
    IF resolveNodeStrategy(tree, repo) # None THEN resolveNodeStrategy(tree, repo)
    ELSE IF resolvePythonStrategy(tree, repo) # None THEN resolvePythonStrategy(tree, repo)
    ELSE IF resolveGoStrategy(tree, repo) # None THEN resolveGoStrategy(tree, repo)
    ELSE IF resolveJavaStrategy(tree, repo) # None THEN resolveJavaStrategy(tree, repo)
    ELSE None

NoTree == [files |-> {}, scripts |-> {}, platform |-> "linux"]

CoverageIdle ==
    [pc |-> "idle", parserName |-> "lcov", file |-> None, edits |-> <<>>,
     tree |-> NoTree, repo |-> NoRepo, strategy |-> None,
     coverageByFile |-> <<>>,
     report |-> [executed |-> FALSE, success |-> FALSE,
                 overallLineCoveragePercent |-> None, fileCoverage |-> <<>>]]

(***************************************************************************)
(* The response interpreter: parseJsonObject and its helpers               *)
(* (src/lib/agent/clients/gemini.ts).  A text is a sequence of one-       *)
(* character strings.                                                      *)
(***************************************************************************)
Quote == "\""
Backslash == "\\"
\* the backtick, named by its code point
Backtick == "U+0060"

\* U+0000 to U+001F, of those a text may hold
IsControlChar(c) == c \in {"\n", "\t", "\r", "\f"}

IsHexDigit(c) ==
    c \in {"0", "1", "2", "3", "4", "5", "6", "7", "8", "9",
           "a", "b", "c", "d", "e", "f", "A", "B", "C", "D", "E", "F"}

\* value.slice(from - 1): the text from position from on
SliceFrom(s, from) == SubSeq(s, from, Len(s))

RECURSIVE SkipWhitespace(_, _)
\* the first position at or after i that holds no whitespace, Len(s) + 1 if none
SkipWhitespace(s, i) ==
    IF i <= Len(s) /\ IsSpace(s[i]) THEN SkipWhitespace(s, i + 1) ELSE i

RECURSIVE DropTrailingWhitespace(_)
DropTrailingWhitespace(s) ==
    IF Len(s) > 0 /\ IsSpace(s[Len(s)])
    THEN DropTrailingWhitespace(SubSeq(s, 1, Len(s) - 1))
    ELSE s

Fence == <<Backtick, Backtick, Backtick>>

\* replace(/^```(?:json)?\s*/i, "")
StripLeadingFence(raw) ==
    IF ~StartsWith(raw, Fence) THEN raw
    ELSE LET afterFence == SliceFrom(raw, 4)
             afterWord == IF /\ Len(afterFence) >= 4
                             /\ ToLowerCase(SubSeq(afterFence, 1, 4)) = <<"j", "s", "o", "n">>
                          THEN SliceFrom(afterFence, 5)
                          ELSE afterFence
         IN  SliceFrom(afterWord, SkipWhitespace(afterWord, 1))

\* replace(/\s*```$/i, "")
StripTrailingFence(s) ==
    IF ~EndsWith(s, Fence) THEN s
    ELSE DropTrailingWhitespace(SubSeq(s, 1, Len(s) - 3))

stripCodeFences(raw) == StripTrailingFence(StripLeadingFence(raw))

\* raw.indexOf(c, i - 1) counted from 1: the first position at or after i that
\* holds c, 0 when there is none
IndexOfFrom(s, c, i) ==
    LET at == {k \in i..Len(s) : s[k] = c}
    IN  IF at = {} THEN 0 ELSE CHOOSE k \in at : \A j \in at : k <= j

indexOf(s, c) == IndexOfFrom(s, c, 1)

RECURSIVE ScanBalanced(_, _, _, _, _, _, _)
\* the for loop of extractBalancedJsonValue: the position at which depth
\* returns to zero, 0 when the text ends first
ScanBalanced(raw, index, depth, inString, escaped, openChar, closeChar) ==
    IF index > Len(raw) THEN 0
    ELSE LET char == raw[index]
             next(d, s, e) == ScanBalanced(raw, index + 1, d, s, e, openChar, closeChar)
         IN  IF inString
             THEN IF escaped THEN next(depth, TRUE, FALSE)
                  ELSE IF char = Backslash THEN next(depth, TRUE, TRUE)
                  ELSE IF char = Quote THEN next(depth, FALSE, FALSE)
                  ELSE next(depth, TRUE, FALSE)
             ELSE IF char = Quote THEN next(depth, TRUE, escaped)
             ELSE IF char = openChar THEN next(depth + 1, FALSE, escaped)
             ELSE IF char = closeChar
             THEN IF depth - 1 = 0 THEN index ELSE next(depth - 1, FALSE, escaped)
             ELSE next(depth, FALSE, escaped)

\* the span from the first opening delimiter to the first closing one
extractUpToFirstClose(raw) ==
    LET braceStart == indexOf(raw, "{")
        bracketStart == indexOf(raw, "[")
        useBrace == IF braceStart > 0 /\ bracketStart > 0
                    THEN braceStart < bracketStart
                    ELSE braceStart > 0
        first == IF useBrace THEN braceStart ELSE bracketStart
        end == IF first = 0 THEN 0
               ELSE IndexOfFrom(raw, IF useBrace THEN "}" ELSE "]", first)
    IN  IF end = 0 THEN None ELSE Some(SubSeq(raw, first, end))

\* the span found, or None for null
extractBalancedJsonValue(raw) ==
    LET braceStart == indexOf(raw, "{")
        bracketStart == indexOf(raw, "[")
        useBrace == IF braceStart > 0 /\ bracketStart > 0
                    THEN braceStart < bracketStart
                    ELSE braceStart > 0
        first == IF useBrace THEN braceStart ELSE bracketStart
        openChar == IF useBrace THEN "{" ELSE "["
        closeChar == IF useBrace THEN "}" ELSE "]"
    IN  IF first = 0 THEN None
        ELSE LET end == ScanBalanced(raw, first, 0, FALSE, FALSE, openChar, closeChar)
             IN  IF end = 0 THEN None ELSE Some(SubSeq(raw, first, end))

\* JSON values: a string holds its characters, a number its digits, an
\* object its members <<key, value>> in insertion order, an array its elements
JString(chars) == [t |-> "string", v |-> chars]
JNumber(digits) == [t |-> "number", v |-> digits]
JObject(members) == [t |-> "object", v |-> members]
JArray(elements) == [t |-> "array", v |-> elements]
JNull == [t |-> "null", v |-> <<>>]
JTrue == [t |-> "true", v |-> <<>>]
JFalse == [t |-> "false", v |-> <<>>]

\* what a throwing JSON.parse leaves in place of a value
SyntaxError == [t |-> "SyntaxError", v |-> <<>>]

ParseFail == [ok |-> FALSE, val |-> SyntaxError, next |-> 0]
ParseOk(val, next) == [ok |-> TRUE, val |-> val, next |-> next]

\* the character a simple escape stands for
SimpleEscapes == {Quote, Backslash, "/", "b", "f", "n", "r", "t"}
UnescapeSimple(c) ==
    CASE c = "n" -> "\n"
      [] c = "t" -> "\t"
      [] c = "r" -> "\r"
      [] c = "f" -> "\f"
      [] c = "b" -> "U+0008"
      [] OTHER -> c

\* the character \uXXXX stands for, named by its code point
UnescapeUnicode(hex) ==
    CASE hex = <<"0", "0", "0", "a">> -> "\n"
      [] hex = <<"0", "0", "0", "9">> -> "\t"
      [] hex = <<"0", "0", "0", "d">> -> "\r"
      [] hex = <<"0", "0", "0", "c">> -> "\f"
      [] OTHER -> "U+" \o hex[1] \o hex[2] \o hex[3] \o hex[4]

IsFourHex(s) == Len(s) = 4 /\ \A i \in 1..4 : IsHexDigit(s[i])

RECURSIVE ParseStringBody(_, _, _)
\* a string literal from the position after its opening quote
ParseStringBody(s, i, acc) ==
    IF i > Len(s) THEN ParseFail
    ELSE IF s[i] = Quote THEN ParseOk(acc, i + 1)
    ELSE IF s[i] = Backslash
    THEN IF i + 1 > Len(s) THEN ParseFail
         ELSE IF s[i + 1] \in SimpleEscapes
         THEN ParseStringBody(s, i + 2, Append(acc, UnescapeSimple(s[i + 1])))
         ELSE IF s[i + 1] = "u" /\ i + 5 <= Len(s) /\ IsFourHex(SubSeq(s, i + 2, i + 5))
         THEN ParseStringBody(s, i + 6, Append(acc, UnescapeUnicode(SubSeq(s, i + 2, i + 5))))
         ELSE ParseFail
    ELSE IF IsControlChar(s[i]) THEN ParseFail
    ELSE ParseStringBody(s, i + 1, Append(acc, s[i]))

IsDigit(c) == c \in {"0", "1", "2", "3", "4", "5", "6", "7", "8", "9"}

RECURSIVE DigitsEnd(_, _)
\* the position after the run of digits that starts at i
DigitsEnd(s, i) == IF i <= Len(s) /\ IsDigit(s[i]) THEN DigitsEnd(s, i + 1) ELSE i

\* an integer literal ("-"? then "0" or a run not starting with "0"); the
\* texts hold no fraction or exponent
ParseNumber(s, i) ==
    LET from == IF s[i] = "-" THEN i + 1 ELSE i
        end == DigitsEnd(s, from)
    IN  IF end = from \/ (s[from] = "0" /\ end > from + 1) THEN ParseFail
        ELSE ParseOk(JNumber(SubSeq(s, i, end - 1)), end)

ParseLiteral(s, i, word, val) ==
    IF i + Len(word) - 1 <= Len(s) /\ SubSeq(s, i, i + Len(word) - 1) = word
    THEN ParseOk(val, i + Len(word))
    ELSE ParseFail

\* members with the member set: a repeated key keeps its place, the last value
SetMember(members, key, val) ==
    IF \E k \in 1..Len(members) : members[k][1] = key
    THEN [k \in 1..Len(members) |->
             IF members[k][1] = key THEN <<key, val>> ELSE members[k]]
    ELSE Append(members, <<key, val>>)

RECURSIVE ParseValue(_, _)
RECURSIVE ParseMembers(_, _, _)
RECURSIVE ParseElements(_, _, _)

\* the members of an object from position i, which follows "{" or ","
ParseMembers(s, i, acc) ==
    LET k == SkipWhitespace(s, i)
    IN  IF k > Len(s) \/ s[k] # Quote THEN ParseFail
        ELSE LET key == ParseStringBody(s, k + 1, <<>>)
             IN  IF ~key.ok THEN ParseFail
                 ELSE LET colon == SkipWhitespace(s, key.next)
                      IN  IF colon > Len(s) \/ s[colon] # ":" THEN ParseFail
                          ELSE LET val == ParseValue(s, colon + 1)
                               IN  IF ~val.ok THEN ParseFail
                                   ELSE LET after == SkipWhitespace(s, val.next)
                                            members == SetMember(acc, key.val, val.val)
                                        IN  IF after > Len(s) THEN ParseFail
                                            ELSE IF s[after] = "}"
                                            THEN ParseOk(JObject(members), after + 1)
                                            ELSE IF s[after] = ","
                                            THEN ParseMembers(s, after + 1, members)
                                            ELSE ParseFail

\* the elements of an array from position i, which follows "[" or ","
ParseElements(s, i, acc) ==
    LET val == ParseValue(s, i)
    IN  IF ~val.ok THEN ParseFail
        ELSE LET after == SkipWhitespace(s, val.next)
                 elements == Append(acc, val.val)
             IN  IF after > Len(s) THEN ParseFail
                 ELSE IF s[after] = "]" THEN ParseOk(JArray(elements), after + 1)
                 ELSE IF s[after] = "," THEN ParseElements(s, after + 1, elements)
                 ELSE ParseFail

\* one JSON value from position i, leading whitespace skipped
ParseValue(s, i) ==
    LET k == SkipWhitespace(s, i)
    IN  IF k > Len(s) THEN ParseFail
        ELSE IF s[k] = "{"
        THEN LET inner == SkipWhitespace(s, k + 1)
             IN  IF inner <= Len(s) /\ s[inner] = "}"
                 THEN ParseOk(JObject(<<>>), inner + 1)
                 ELSE ParseMembers(s, k + 1, <<>>)
        ELSE IF s[k] = "["
        THEN LET inner == SkipWhitespace(s, k + 1)
             IN  IF inner <= Len(s) /\ s[inner] = "]"
                 THEN ParseOk(JArray(<<>>), inner + 1)
                 ELSE ParseElements(s, k + 1, <<>>)
        ELSE IF s[k] = Quote
        THEN LET str == ParseStringBody(s, k + 1, <<>>)
             IN  IF str.ok THEN ParseOk(JString(str.val), str.next) ELSE ParseFail
        ELSE IF s[k] = "-" \/ IsDigit(s[k]) THEN ParseNumber(s, k)
        ELSE IF s[k] = "n" THEN ParseLiteral(s, k, <<"n", "u", "l", "l">>, JNull)
        ELSE IF s[k] = "t" THEN ParseLiteral(s, k, <<"t", "r", "u", "e">>, JTrue)
        ELSE IF s[k] = "f" THEN ParseLiteral(s, k, <<"f", "a", "l", "s", "e">>, JFalse)
        ELSE ParseFail

\* JSON.parse: the value, or SyntaxError when it throws
JSONParse(text) ==
    LET r == ParseValue(text, 1)
    IN  IF r.ok /\ SkipWhitespace(text, r.next) > Len(text) THEN r.val ELSE SyntaxError

RECURSIVE RepairEscapes(_, _, _, _, _)
\* the for loop of repairInvalidStringEscapes
RepairEscapes(input, index, output, inString, escaped) ==
    IF index > Len(input) THEN output
    ELSE LET char == input[index]
             loop(out, s, e) == RepairEscapes(input, index + 1, out, s, e)
         IN  IF ~inString THEN loop(Append(output, char), char = Quote, escaped)
             ELSE IF escaped THEN loop(Append(output, char), TRUE, FALSE)
             ELSE IF char = Quote THEN loop(Append(output, char), FALSE, FALSE)
             ELSE IF char = Backslash
             THEN LET hasNext == index + 1 <= Len(input)
                      isSimpleEscape == ~hasNext \/ input[index + 1] \in SimpleEscapes
                      isUnicodeEscape ==
                          /\ hasNext /\ input[index + 1] = "u"
                          /\ index + 5 <= Len(input)
                          /\ IsFourHex(SubSeq(input, index + 2, index + 5))
                  IN  IF isSimpleEscape \/ isUnicodeEscape
                      THEN loop(Append(output, Backslash), TRUE, TRUE)
                      ELSE loop(output \o <<Backslash, Backslash>>, TRUE, FALSE)
             ELSE loop(Append(output, char), TRUE, FALSE)

\* the text as it is, no backslash doubled
repairNothing(input) == input

RECURSIVE DoubleBackslashes(_, _)
DoubleBackslashes(input, index) ==
    IF index > Len(input) THEN <<>>
    ELSE (IF input[index] = Backslash THEN <<Backslash, Backslash>> ELSE <<input[index]>>)
             \o DoubleBackslashes(input, index + 1)

\* a repair that doubles every backslash of the text
repairEveryBackslash(input) == DoubleBackslashes(input, 1)

repairInvalidStringEscapes(input) == RepairEscapes(input, 1, <<>>, FALSE, FALSE)

\* code.toString(16).padStart(4, "0") of a control character
ControlCharHex(c) ==
    CASE c = "\n" -> <<"0", "0", "0", "a">>
      [] c = "\t" -> <<"0", "0", "0", "9">>
      [] c = "\r" -> <<"0", "0", "0", "d">>
      [] c = "\f" -> <<"0", "0", "0", "c">>

RECURSIVE SanitizeControlChars(_, _, _, _, _)
\* the for loop of sanitizeControlCharsInStrings
SanitizeControlChars(input, index, output, inString, escaped) ==
    IF index > Len(input) THEN output
    ELSE LET char == input[index]
             loop(out, s, e) == SanitizeControlChars(input, index + 1, out, s, e)
         IN  IF ~inString THEN loop(Append(output, char), char = Quote, escaped)
             ELSE IF escaped THEN loop(Append(output, char), TRUE, FALSE)
             ELSE IF char = Backslash THEN loop(Append(output, char), TRUE, TRUE)
             ELSE IF char = Quote THEN loop(Append(output, char), FALSE, FALSE)
             ELSE IF IsControlChar(char)
             THEN loop(output \o <<Backslash, "u">> \o ControlCharHex(char), TRUE, FALSE)
             ELSE loop(Append(output, char), TRUE, FALSE)

sanitizeControlCharsInStrings(input) == SanitizeControlChars(input, 1, <<>>, FALSE, FALSE)

\* jsonrepair is a dependency of the repository: what JSON.parse(jsonrepair(text))
\* yields is an input, SyntaxError standing for either call throwing
JsonRepairOutcomes ==
    {SyntaxError, JObject(<<>>), JArray(<<>>), JString(<<"a">>)}

\* the value, or SyntaxError when the last attempt throws
parseJsonLenient(jsonText, repaired) ==
    LET strict == JSONParse(jsonText)
        escapesRepaired == JSONParse(repairInvalidStringEscapes(jsonText))
        sanitized == JSONParse(sanitizeControlCharsInStrings(
                                   repairInvalidStringEscapes(jsonText)))
    IN  IF strict # SyntaxError THEN strict
        ELSE IF escapesRepaired # SyntaxError THEN escapesRepaired
        ELSE IF sanitized # SyntaxError THEN sanitized
        ELSE repaired

PreviewLength == 240
Preview(text) == SubSeq(text, 1, IF Len(text) < PreviewLength THEN Len(text) ELSE PreviewLength)

Returned(value) == [kind |-> "returned", value |-> value, error |-> "", preview |-> <<>>]
Threw(error, preview) ==
    [kind |-> "threw", value |-> SyntaxError, error |-> error, preview |-> preview]

\* a find that takes the first element whatever it is
FirstElement(elements) == IF Len(elements) = 0 THEN None ELSE Some(elements[1])

\* parsed.find((item) => item && typeof item === "object" && !Array.isArray(item))
FirstObject(elements) ==
    LET objects == {k \in 1..Len(elements) : elements[k].t = "object"}
    IN  IF objects = {} THEN None
        ELSE Some(elements[CHOOSE k \in objects : \A j \in objects : k <= j])

\* parseJsonObject: its outcome, with the span it extracted (the local jsonText)
parseJsonObject(raw, repaired) ==
    LET normalized == Trim(stripCodeFences(raw))
        jsonText == extractBalancedJsonValue(normalized)
        result ==
            IF jsonText = None \/ jsonText = Some(<<>>)
            THEN Threw("Model response did not contain JSON object", Preview(normalized))
            ELSE LET parsed == parseJsonLenient(jsonText[1], repaired)
                 IN  IF parsed = SyntaxError THEN Threw("SyntaxError", <<>>)
                     ELSE IF parsed.t = "object" THEN Returned(parsed)
                     ELSE IF parsed.t = "array" /\ FirstObject(parsed.v) # None
                     THEN Returned(FirstObject(parsed.v)[1])
                     ELSE Threw("Model response JSON was not an object",
                                Preview(jsonText[1]))
    IN  [jsonText |-> jsonText, result |-> result]

\* the pieces a response is made of: prose characters, a code fence, a fence
\* with its language tag and line break
FenceJson == Fence \o <<"j", "s", "o", "n", "\n">>
ProseTokens ==
    {<<"a">>, <<" ">>, <<"{">>, <<"}">>, <<"[">>, <<"]">>, <<Quote>>, Fence, FenceJson}

RECURSIVE Proses(_)
\* the prose of at most n tokens
Proses(n) ==
    IF n = 0 THEN {<<>>}
    ELSE LET shorter == Proses(n - 1)
         IN  shorter \cup {p \o t : p \in shorter, t \in ProseTokens}

\* well-formed object texts
Obj_number == <<"{", Quote, "a", Quote, ":", "1", "}">>
Obj_close_brace_in_string == <<"{", Quote, "a", Quote, ":", Quote, "}", Quote, "}">>
Obj_open_brace_in_string == <<"{", Quote, "a", Quote, ":", Quote, "{", Quote, "}">>
Obj_nested ==
    <<"{", Quote, "a", Quote, ":", "{", Quote, "b", Quote, ":", "[", "1", "]", "}", "}">>
Obj_escaped_quote ==
    <<"{", Quote, "a", Quote, ":", Quote, Backslash, Quote, "}", Quote, "}">>
Obj_escaped_backslash ==
    <<"{", Quote, "a", Quote, ":", Quote, Backslash, Backslash, Quote, "}">>
ObjectTexts ==
    {Obj_number, Obj_close_brace_in_string, Obj_open_brace_in_string, Obj_nested,
     Obj_escaped_quote, Obj_escaped_backslash}

NoResult == [kind |-> "none", value |-> SyntaxError, error |-> "", preview |-> <<>>]

ParserIdle ==
    [pc |-> "idle", lead |-> <<>>, object |-> <<>>, trail |-> <<>>, raw |-> <<>>,
     intended |-> SyntaxError, jsonText |-> None, result |-> NoResult,
     repaired |-> <<>>, repairedAgain |-> <<>>]

\* a response made of prose, an object text and prose
Response(lead, object, trail) ==
    [ParserIdle EXCEPT !.pc = "input", !.lead = lead, !.object = object,
                       !.trail = trail, !.raw = lead \o object \o trail]

(***************************************************************************)
(* passesUnitTestGate applied to candidate edit sets on its own.           *)
(***************************************************************************)
P_tests_b_py == <<"t", "e", "s", "t", "s", "/", "b", ".", "p", "y">>
P_src_tests_b_py == <<"s", "r", "c", "/", "t", "e", "s", "t", "s", "/", "b", ".", "p", "y">>
P_win_spec_js == <<"S", "R", "C", "\\", "A", ".", "S", "P", "E", "C", ".", "J", "S">>
P_test_b_py == <<"t", "e", "s", "t", "_", "b", ".", "p", "y">>
P_a_cs == <<"a", ".", "c", "s">>
P_contest_py == <<"c", "o", "n", "t", "e", "s", "t", ".", "p", "y">>

\* paths a candidate edit may name (DraftEdit.path is any string)
GatePaths == {P_src_a_ts, P_src_a_test_ts, P_readme, P_tests_b_py, P_src_tests_b_py,
              P_win_spec_js, P_test_b_py, P_a_cs, P_contest_py}

RECURSIVE EditSeqs(_)
\* the edit sets of at most n edits over GatePaths
EditSeqs(n) ==
    IF n = 0 THEN {<<>>}
    ELSE LET shorter == EditSeqs(n - 1)
         IN  shorter \cup {Append(e, Edit(p, "c")) : e \in shorter, p \in GatePaths}

\* RepoSnapshot values: scanRepository counts files, so a language that is a
\* key of languageSummary has a count of at least 1
RepoCSharp == [languageSummary |-> [l \in {"C#", "Other"} |-> 2]]
RepoGo == [languageSummary |-> [l \in {"Go"} |-> 1]]
GateRepos == {RepoTypeScript, RepoDocs, RepoCSharp, RepoGo}

GateIdle ==
    [pc |-> "idle", edits |-> <<>>, repo |-> NoRepo, result |-> FALSE,
     added |-> <<>>, resultBefore |-> FALSE]

\* the gate is evaluated on the candidate set of a response
GateJudge ==
    /\ gate.pc = "input"
    /\ gate' = [gate EXCEPT !.pc = "judged",
                            !.result = passesUnitTestGate(gate.edits, gate.repo)]
    /\ UNCHANGED <<store, start, calls, fs, applied, verify, parser, coverage, storeCall>>

\* the next response names one more path, and the gate is evaluated again
GateRetry(p) ==
    /\ gate.pc = "judged"
    /\ LET edits == Append(gate.edits, Edit(p, "c"))
       IN  gate' = [gate EXCEPT !.pc = "rejudged", !.edits = edits, !.added = p,
                                !.resultBefore = gate.result,
                                !.result = passesUnitTestGate(edits, gate.repo)]
    /\ UNCHANGED <<store, start, calls, fs, applied, verify, parser, coverage, storeCall>>

InitGate ==
    /\ store = [id \in {} |-> BaseRecord(id, [dryRun |-> TRUE])]
    /\ start = [r \in RunIds |-> StartIdle]
    /\ calls = [c \in CallIds |-> CallIdle]
    /\ fs = [p \in Paths |-> IF p = P_src_a_ts THEN "orig" ELSE Absent]
    /\ applied = {}
    /\ verify = [v \in VerifyIds |-> VerifyIdle]
    /\ gate \in {[GateIdle EXCEPT !.pc = "input", !.edits = e, !.repo = r] :
                     e \in EditSeqs(MaxGateEdits), r \in GateRepos}
    /\ parser = ParserIdle
    /\ coverage = CoverageIdle
    /\ storeCall = StoreCallIdle

NextGate ==
    \/ GateJudge
    \/ \E p \in GatePaths : GateRetry(p)

SpecGate == InitGate /\ [][NextGate]_vars

\* the pieces of a valid string literal: the characters written and the
\* characters they stand for
Piece(raw, decoded) == [raw |-> raw, decoded |-> decoded]
NoPiece == Piece(<<>>, <<>>)
StringPieces ==
    {Piece(<<"a">>, <<"a">>), Piece(<<"}">>, <<"}">>),
     Piece(<<Backslash, Backslash>>, <<Backslash>>),
     Piece(<<Backslash, Quote>>, <<Quote>>),
     Piece(<<Backslash, "n">>, <<"\n">>),
     Piece(<<Backslash, "u", "0", "0", "4", "1">>, <<"U+0041">>)}

RECURSIVE PieceSeqs(_)
\* valid string contents of at most n pieces
PieceSeqs(n) ==
    IF n = 0 THEN {NoPiece}
    ELSE LET shorter == PieceSeqs(n - 1)
         IN  shorter \cup {Piece(s.raw \o p.raw, s.decoded \o p.decoded) :
                               s \in shorter, p \in StringPieces}

\* characters that make the backslash before them an invalid escape
InvalidEscapeChars == {"x", "u", "U", "0", " ", "'"}

\* an object text whose one invalid backslash is in a member's value or in
\* its key, between valid string contents, with the object it is meant to be
EscapeResponse(before, bad, after, inKey) ==
    LET content == before.raw \o <<Backslash, bad>> \o after.raw
        meant == before.decoded \o <<Backslash, bad>> \o after.decoded
        other == <<Quote, "z", Quote, ":", Quote, Backslash, "n", Quote>>
        text == IF inKey
                THEN <<"{", Quote>> \o content \o <<Quote, ":", "1", ",">> \o other \o <<"}">>
                ELSE <<"{", Quote, "k", Quote, ":", Quote>> \o content \o <<Quote, ",">>
                         \o other \o <<"}">>
        member == IF inKey THEN <<meant, JNumber(<<"1">>)>> ELSE << <<"k">>, JString(meant) >>
    IN  [ParserIdle EXCEPT !.pc = "input", !.object = text, !.raw = text,
                           !.intended = JObject(<<member, << <<"z">>, JString(<<"\n">>) >> >>)]

\* texts without a balanced span: no delimiter, a closing delimiter only
\* inside a string or after an escaped quote, an unclosed string, and texts
\* longer than the preview
Repeat(c, n) == [i \in 1..n |-> c]
NoSpanTexts ==
    {<<>>, <<"a", " ", "b">>, <<"}", "a", "]">>,
     <<"{", Quote, "}", Quote>>,
     <<"{", Quote, Backslash, Quote, "}", Quote>>,
     <<"{", Quote, Backslash, Backslash, Quote, Quote, "}">>,
     <<"[", "{", "}">>,
     Repeat("a", PreviewLength + 1),
     Repeat("a", PreviewLength) \o <<"{", Quote, "}", Quote>>}

\* texts whose span ends where the depth of the opening delimiter's kind
\* returns to zero
SpanTexts ==
    {<<"{", "[", "}", "]">>, <<"[", "{", "]", "}">>,
     <<"a", "{", "{", "}", Quote, "}", "}", Quote, "}", "}">>,
     <<"[", Quote, Backslash, Backslash, Quote, "]", Quote, "]", Quote>>}

\* array elements: the text of each with the value it stands for
Item(text, value) == [text |-> text, value |-> value]
ArrayItems ==
    {Item(<<"1">>, JNumber(<<"1">>)),
     Item(<<"n", "u", "l", "l">>, JNull),
     Item(<<"t", "r", "u", "e">>, JTrue),
     Item(<<Quote, "s", Quote>>, JString(<<"s">>)),
     Item(<<"[", "{", Quote, "a", Quote, ":", "1", "}", "]">>,
          JArray(<<JObject(<< <<<<"a">>, JNumber(<<"1">>)>> >>)>>)),
     Item(<<"{", Quote, "a", Quote, ":", "1", "}">>,
          JObject(<< <<<<"a">>, JNumber(<<"1">>)>> >>)),
     Item(<<"{", Quote, "b", Quote, ":", "[", "]", "}">>,
          JObject(<< <<<<"b">>, JArray(<<>>)>> >>))}

RECURSIVE ItemSeqs(_)
\* the element lists of at most n elements
ItemSeqs(n) ==
    IF n = 0 THEN {<<>>}
    ELSE LET shorter == ItemSeqs(n - 1)
         IN  shorter \cup {Append(items, item) : items \in shorter, item \in ArrayItems}

RECURSIVE JoinItems(_, _)
\* the texts of the elements from the i-th on, with commas between them
JoinItems(items, i) ==
    IF i > Len(items) THEN <<>>
    ELSE items[i].text \o (IF i < Len(items) THEN <<",", " ">> ELSE <<>>)
             \o JoinItems(items, i + 1)

\* a response that is an array of these elements, with the array it stands for
ArrayResponse(items) ==
    [ParserIdle EXCEPT !.pc = "input",
                       !.raw = <<"[">> \o JoinItems(items, 1) \o <<"]">>,
                       !.intended = JArray([i \in 1..Len(items) |-> items[i].value])]

\* a response that is one of these texts
TextResponse(text) == [ParserIdle EXCEPT !.pc = "input", !.raw = text]

\* parseJsonObject is applied to the response text
InterpretResponse(repaired) ==
    /\ parser.pc = "input"
    /\ \E outcome \in {parseJsonObject(parser.raw, repaired)} :
          parser' = [parser EXCEPT !.pc = "parsed", !.jsonText = outcome.jsonText,
                                   !.result = outcome.result]
    /\ UNCHANGED <<store, start, calls, fs, applied, verify, gate, coverage, storeCall>>

InitParse ==
    /\ store = [id \in {} |-> BaseRecord(id, [dryRun |-> TRUE])]
    /\ start = [r \in RunIds |-> StartIdle]
    /\ calls = [c \in CallIds |-> CallIdle]
    /\ fs = [p \in Paths |-> IF p = P_src_a_ts THEN "orig" ELSE Absent]
    /\ applied = {}
    /\ verify = [v \in VerifyIds |-> VerifyIdle]
    /\ gate = GateIdle
    /\ coverage = CoverageIdle
    /\ storeCall = StoreCallIdle
    /\ \/ \E lead \in Proses(MaxProse), object \in ObjectTexts, trail \in Proses(MaxProse) :
             parser = Response(lead, object, trail)
       \/ \E before \in PieceSeqs(MaxPieces), bad \in InvalidEscapeChars,
             after \in PieceSeqs(MaxPieces), inKey \in BOOLEAN :
             parser = EscapeResponse(before, bad, after, inKey)
       \/ \E text \in NoSpanTexts \cup SpanTexts : parser = TextResponse(text)
       \/ \E items \in ItemSeqs(MaxItems) : parser = ArrayResponse(items)

NextParse == \E repaired \in JsonRepairOutcomes : InterpretResponse(repaired)

SpecParse == InitParse /\ [][NextParse]_vars

(***************************************************************************)
(* repairInvalidStringEscapes applied to a text, and to its own output.    *)
(***************************************************************************)
\* what a text is made of: a quote, a backslash, an escape letter, the letter
\* u, four hex digits, and a letter that is no escape
RepairTokens ==
    {<<Quote>>, <<Backslash>>, <<"n">>, <<"u">>, <<"0", "0", "4", "1">>, <<"x">>}

RECURSIVE RepairTexts(_)
\* the texts of at most n tokens
RepairTexts(n) ==
    IF n = 0 THEN {<<>>}
    ELSE LET shorter == RepairTexts(n - 1)
         IN  shorter \cup {text \o token : text \in shorter, token \in RepairTokens}

ParserUnchangedOthers ==
    UNCHANGED <<store, start, calls, fs, applied, verify, gate, coverage, storeCall>>

RepairOnce ==
    /\ parser.pc = "text"
    /\ parser' = [parser EXCEPT !.pc = "repaired",
                                !.repaired = repairInvalidStringEscapes(parser.raw)]
    /\ ParserUnchangedOthers

RepairAgain ==
    /\ parser.pc = "repaired"
    /\ parser' = [parser EXCEPT
          !.pc = "repairedAgain",
          !.repairedAgain = repairInvalidStringEscapes(parser.repaired)]
    /\ ParserUnchangedOthers

InitRepair ==
    /\ store = [id \in {} |-> BaseRecord(id, [dryRun |-> TRUE])]
    /\ start = [r \in RunIds |-> StartIdle]
    /\ calls = [c \in CallIds |-> CallIdle]
    /\ fs = [p \in Paths |-> IF p = P_src_a_ts THEN "orig" ELSE Absent]
    /\ applied = {}
    /\ verify = [v \in VerifyIds |-> VerifyIdle]
    /\ gate = GateIdle
    /\ coverage = CoverageIdle
    /\ storeCall = StoreCallIdle
    /\ \E text \in RepairTexts(MaxRepairTokens) :
          parser = [ParserIdle EXCEPT !.pc = "text", !.raw = text]

NextRepair == RepairOnce \/ RepairAgain

SpecRepair == InitRepair /\ [][NextRepair]_vars

\* report files: 8 of 10 lines hit; two records, the second without lines
LcovEightOfTen ==
    <<SF(P_src_a_ts)>> \o [i \in 1..10 |-> DA(IF i <= 8 THEN 1 ELSE 0)] \o <<EndOfRecord>>
LcovTwoFiles ==
    <<SF(P_src_a_ts), DA(1), DA(0), DA(2), EndOfRecord, SF(P_src_a_test_ts), EndOfRecord>>
\* 23 of 160 statements (14.375 percent) and 1 of 32 (3.125 percent)
GoTies ==
    <<GoMode,
      GoRecord(P_src_a_ts, 23, 1),
      GoRecord(P_src_a_ts, 137, 0),
      GoRecord(P_win_spec_js, 1, 3),
      GoRecord(P_win_spec_js, 31, 0)>>
GoUncovered == <<GoMode, GoRecord(P_src_a_test_ts, 5, 0)>>
\* two classes of one file, and a class without lines
CoberturaTwoClasses ==
    <<[filename |-> P_src_a_ts, hits |-> <<1, 0>>], [filename |-> P_src_a_ts, hits |-> <<1>>],
      [filename |-> P_src_a_test_ts, hits |-> <<>>]>>
CoberturaFull == <<[filename |-> P_src_a_test_ts, hits |-> <<2, 1>>]>>
\* package src with a.ts (2 missed, 8 covered) and a sourcefile without a LINE
\* counter; the unnamed package with a file without lines
JaCoCoPackage ==
    <<[name |-> <<"s", "r", "c">>,
       sourcefiles |-> <<[name |-> <<"a", ".", "t", "s">>,
                          counter |-> Some([missed |-> 2, covered |-> 8])],
                         [name |-> <<"a", ".", "t", "e", "s", "t", ".", "t", "s">>,
                          counter |-> None]>>],
      [name |-> <<>>,
       sourcefiles |-> <<[name |-> NormalizeSlashes(P_win_spec_js),
                          counter |-> Some([missed |-> 0, covered |-> 0])]>>]>>
JaCoCoTie ==
    <<[name |-> <<"s", "r", "c">>,
       sourcefiles |-> <<[name |-> <<"a", ".", "t", "s">>,
                          counter |-> Some([missed |-> 137, covered |-> 23])]>>]>>

ParserNames == {"lcov", "go-coverprofile", "cobertura-xml", "jacoco-xml"}

\* what the test command may leave at the report path; None for no file
ReportFiles(parserName) ==
    {None} \cup
    (IF parserName = "lcov" THEN {Some(LcovEightOfTen), Some(LcovTwoFiles)}
     ELSE IF parserName = "go-coverprofile" THEN {Some(GoTies), Some(GoUncovered)}
     ELSE IF parserName = "cobertura-xml"
     THEN {Some(CoberturaTwoClasses), Some(CoberturaFull)}
     ELSE {Some(JaCoCoPackage), Some(JaCoCoTie)})

CoveragePaths == {P_src_a_ts, P_src_a_test_ts, P_win_spec_js}

RECURSIVE CoverageEditSeqs(_)
\* the edit sets of at most n edits over CoveragePaths
CoverageEditSeqs(n) ==
    IF n = 0 THEN {<<>>}
    ELSE LET shorter == CoverageEditSeqs(n - 1)
         IN  shorter \cup {Append(e, Edit(p, "c")) : e \in shorter, p \in CoveragePaths}

CoverageUnchangedOthers ==
    UNCHANGED <<store, start, calls, fs, applied, verify, gate, parser, storeCall>>

\* parseCoverageReport(strategy, repoPath), in the try or the catch block
CoverageParse ==
    /\ coverage.pc = "input"
    /\ coverage' = [coverage EXCEPT
          !.pc = "parsed",
          !.coverageByFile = parseCoverageReport(coverage.parserName, coverage.file)]
    /\ CoverageUnchangedOthers

\* the coverage fields of the report of the try block (success) or of the
\* catch block
CoverageReport(success) ==
    /\ coverage.pc = "parsed"
    /\ LET changedCoverage ==
               mapCoverageToChangedFiles(coverage.edits, coverage.coverageByFile)
       IN  coverage' = [coverage EXCEPT
              !.pc = "reported",
              !.report = [executed |-> TRUE, success |-> success,
                          overallLineCoveragePercent |->
                              computeOverallCoverage(changedCoverage),
                          fileCoverage |-> changedCoverage]]
    /\ CoverageUnchangedOthers

InitCoverage ==
    /\ store = [id \in {} |-> BaseRecord(id, [dryRun |-> TRUE])]
    /\ start = [r \in RunIds |-> StartIdle]
    /\ calls = [c \in CallIds |-> CallIdle]
    /\ fs = [p \in Paths |-> IF p = P_src_a_ts THEN "orig" ELSE Absent]
    /\ applied = {}
    /\ verify = [v \in VerifyIds |-> VerifyIdle]
    /\ gate = GateIdle
    /\ parser = ParserIdle
    /\ storeCall = StoreCallIdle
    /\ \E parserName \in ParserNames, edits \in CoverageEditSeqs(MaxCoverageEdits) :
          \E file \in ReportFiles(parserName) :
             coverage = [CoverageIdle EXCEPT !.pc = "input", !.parserName = parserName,
                                             !.file = file, !.edits = edits]

NextCoverage ==
    \/ CoverageParse
    \/ \E success \in BOOLEAN : CoverageReport(success)

SpecCoverage == InitCoverage /\ [][NextCoverage]_vars

(***************************************************************************)
(* The lcov and the Go profile parser over every report of a few lines.    *)
(***************************************************************************)
LcovLineKinds ==
    {SF(P_src_a_ts), SF(P_src_a_test_ts), DA(0), DA(1), EndOfRecord, LcovOther}

GoLineKinds ==
    {GoMode, GoMalformed, GoRecord(P_src_a_ts, 1, 1), GoRecord(P_src_a_ts, 2, 0),
     GoRecord(P_src_a_test_ts, 2, 3), GoRecord(P_src_a_test_ts, 1, 0)}

RECURSIVE ReportLineSeqs(_, _)
\* the reports of at most n lines of the given kinds
ReportLineSeqs(kinds, n) ==
    IF n = 0 THEN {<<>>}
    ELSE LET shorter == ReportLineSeqs(kinds, n - 1)
         IN  shorter \cup {Append(lines, line) : lines \in shorter, line \in kinds}

InitReports ==
    /\ store = [id \in {} |-> BaseRecord(id, [dryRun |-> TRUE])]
    /\ start = [r \in RunIds |-> StartIdle]
    /\ calls = [c \in CallIds |-> CallIdle]
    /\ fs = [p \in Paths |-> IF p = P_src_a_ts THEN "orig" ELSE Absent]
    /\ applied = {}
    /\ verify = [v \in VerifyIds |-> VerifyIdle]
    /\ gate = GateIdle
    /\ parser = ParserIdle
    /\ storeCall = StoreCallIdle
    /\ \/ \E lines \in ReportLineSeqs(LcovLineKinds, MaxReportLines) :
             coverage = [CoverageIdle EXCEPT !.pc = "input", !.parserName = "lcov",
                                             !.file = Some(lines)]
       \/ \E lines \in ReportLineSeqs(GoLineKinds, MaxReportLines) :
             coverage = [CoverageIdle EXCEPT !.pc = "input",
                                             !.parserName = "go-coverprofile",
                                             !.file = Some(lines)]

NextReports == CoverageParse

SpecReports == InitReports /\ [][NextReports]_vars

(***************************************************************************)
(* resolveTestStrategy over repositories of a few languages and files.     *)
(***************************************************************************)
StrategyLanguages == {"TypeScript", "JavaScript", "Python", "Go", "Java", "Kotlin", "Other"}

ProbedFiles ==
    {"pnpm-lock.yaml", "yarn.lock", "pyproject.toml", "requirements.txt", "go.mod",
     "pom.xml", "mvnw", "mvnw.cmd", "build.gradle", "build.gradle.kts", "gradlew",
     "gradlew.bat"}

ScriptNames == {"test:coverage", "coverage", "test", "build"}

Platforms == {"linux", "win32"}

\* the subsets of at most n elements
SubsetsUpTo(elements, n) == {subset \in SUBSET elements : Cardinality(subset) <= n}

\* const strategy = await resolveTestStrategy(params.repoPath, params.repo)
ResolveStrategy ==
    /\ coverage.pc = "resolve"
    /\ coverage' = [coverage EXCEPT
          !.pc = "resolved",
          !.strategy = resolveTestStrategy(coverage.tree, coverage.repo)]
    /\ CoverageUnchangedOthers

InitStrategy ==
    /\ store = [id \in {} |-> BaseRecord(id, [dryRun |-> TRUE])]
    /\ start = [r \in RunIds |-> StartIdle]
    /\ calls = [c \in CallIds |-> CallIdle]
    /\ fs = [p \in Paths |-> IF p = P_src_a_ts THEN "orig" ELSE Absent]
    /\ applied = {}
    /\ verify = [v \in VerifyIds |-> VerifyIdle]
    /\ gate = GateIdle
    /\ parser = ParserIdle
    /\ storeCall = StoreCallIdle
    /\ \E languages \in SubsetsUpTo(StrategyLanguages, MaxLanguages),
          files \in SubsetsUpTo(ProbedFiles, MaxRepoFiles),
          scripts \in SUBSET ScriptNames, platform \in Platforms :
          coverage = [CoverageIdle EXCEPT
              !.pc = "resolve",
              !.repo = [languageSummary |-> [l \in languages |-> 1]],
              !.tree = [files |-> files, scripts |-> scripts, platform |-> platform]]

NextStrategy == ResolveStrategy

SpecStrategy == InitStrategy /\ [][NextStrategy]_vars

(***************************************************************************)
(* The run store on its own: putRun, getRun and updateRun are the only      *)
(* functions that reach runStore (src/lib/agent/instructions.ts).          *)
(***************************************************************************)
StoreRunIds == {1, 2, 3}

\* updates the workflow passes to updateRun
StoreUpdates ==
    {ApplyingUpdate, StartFailedUpdate(MsgGit),
     RejectUpdate(BaseRecord(1, [dryRun |-> TRUE]), NoFeedback),
     StartSuccessUpdate([task |-> "task", repo |-> Some(RepoTypeScript),
                         proposal |-> "proposal", branchName |-> "branch",
                         stagedEdits |-> Some(EditsWithTest),
                         diffPreview |-> "preview"])}

StoreUnchangedOthers ==
    UNCHANGED <<start, calls, fs, applied, verify, gate, parser, coverage>>

StoreCall(op, runId, update, threw, result) ==
    [n |-> storeCall.n + 1, op |-> op, runId |-> runId, update |-> update,
     threw |-> threw, result |-> result]

\* putRun(record) with the fresh record of startAgentRun
StorePut(runId, dryRun) ==
    /\ storeCall.n < MaxStoreOps
    /\ runId \notin DOMAIN store
    /\ store' = putRun(store, BaseRecord(runId, [dryRun |-> dryRun]))
    /\ storeCall' = StoreCall("putRun", runId, None, FALSE, None)
    /\ StoreUnchangedOthers

\* getRun(runId): the record, or undefined
StoreGet(runId) ==
    /\ storeCall.n < MaxStoreOps
    /\ store' = store
    /\ storeCall' = StoreCall("getRun", runId, None, FALSE,
                              IF runId \in DOMAIN store THEN Some(store[runId]) ELSE None)
    /\ StoreUnchangedOthers

\* updateRun(runId, update): throws "Run not found" before any write when
\* the id is unknown, otherwise stores and returns the merged record
StoreUpdate(runId, update) ==
    /\ storeCall.n < MaxStoreOps
    /\ IF runId \notin DOMAIN store
       THEN /\ store' = store
            /\ storeCall' = StoreCall("updateRun", runId, Some(update), TRUE, None)
       ELSE /\ store' = updateRun(store, runId, update)
            /\ storeCall' = StoreCall("updateRun", runId, Some(update), FALSE,
                                      Some(store'[runId]))
    /\ StoreUnchangedOthers

InitStore ==
    /\ store = [id \in {} |-> BaseRecord(id, [dryRun |-> TRUE])]
    /\ start = [r \in RunIds |-> StartIdle]
    /\ calls = [c \in CallIds |-> CallIdle]
    /\ fs = [p \in Paths |-> IF p = P_src_a_ts THEN "orig" ELSE Absent]
    /\ applied = {}
    /\ verify = [v \in VerifyIds |-> VerifyIdle]
    /\ gate = GateIdle
    /\ parser = ParserIdle
    /\ coverage = CoverageIdle
    /\ storeCall = StoreCallIdle

NextStore ==
    \/ \E runId \in StoreRunIds, dryRun \in BOOLEAN : StorePut(runId, dryRun)
    \/ \E runId \in StoreRunIds : StoreGet(runId)
    \/ \E runId \in StoreRunIds, update \in StoreUpdates : StoreUpdate(runId, update)

SpecStore == InitStore /\ [][NextStore]_vars

InitVerify ==
    /\ store = [id \in {} |-> BaseRecord(id, [dryRun |-> TRUE])]
    /\ start = [r \in RunIds |-> StartIdle]
    /\ calls = [c \in CallIds |-> CallIdle]
    /\ applied = {}
    /\ fs = VerifyTree
    /\ verify = [v \in VerifyIds |-> VerifyIdle]
    /\ gate = GateIdle
    /\ parser = ParserIdle
    /\ coverage = CoverageIdle
    /\ storeCall = StoreCallIdle

NextVerify ==
    \/ \E v \in VerifyIds, edits \in VerifyEditSets, d \in Detections :
          VerifyBegin(v, edits, d.hasNode, d.hasStrategy)
    \/ \E v \in VerifyIds : VerifySnapshot(v)
    \/ \E v \in VerifyIds, ok \in BOOLEAN : VerifyWrite(v, ok)
    \/ \E v \in VerifyIds, outcome \in ExecOutcomes, tree \in TreesAfterCommand(fs) :
          VerifyExec(v, outcome, tree)
    \/ \E v \in VerifyIds : VerifyParse(v)
    \/ \E v \in VerifyIds : VerifyRestore(v)

SpecVerify == InitVerify /\ [][NextVerify]_vars

(***************************************************************************)
(* Verification attempts that share one working tree: one call more than   *)
(* SpecVerify follows, on edit sets of one file, with a test command that  *)
(* leaves the tree alone.                                                  *)
(***************************************************************************)
OverlapIds == 1..(MaxVerifyCalls + 1)

\* an edit of a file of the tree and an edit that creates a file
OverlapEditSets == {EditsSourceOnly, <<Edit(P_src_a_test_ts, "test")>>}

InitVerifyOverlap ==
    /\ store = [id \in {} |-> BaseRecord(id, [dryRun |-> TRUE])]
    /\ start = [r \in RunIds |-> StartIdle]
    /\ calls = [c \in CallIds |-> CallIdle]
    /\ applied = {}
    /\ fs = VerifyTree
    /\ verify = [v \in OverlapIds |-> VerifyIdle]
    /\ gate = GateIdle
    /\ parser = ParserIdle
    /\ coverage = CoverageIdle
    /\ storeCall = StoreCallIdle

NextVerifyOverlap ==
    \/ \E v \in OverlapIds, edits \in OverlapEditSets : VerifyBegin(v, edits, TRUE, TRUE)
    \/ \E v \in OverlapIds : VerifySnapshot(v)
    \/ \E v \in OverlapIds : VerifyWrite(v, TRUE)
    \/ \E v \in OverlapIds, outcome \in {"exit0", "nonzero"} : VerifyExec(v, outcome, fs)
    \/ \E v \in OverlapIds : VerifyParse(v)
    \/ \E v \in OverlapIds : VerifyRestore(v)

SpecVerifyOverlap == InitVerifyOverlap /\ [][NextVerifyOverlap]_vars

(***************************************************************************)
(* The workflow specification.                                             *)
(***************************************************************************)
InitialTree == [p \in Paths |-> IF p = P_src_a_ts THEN "orig" ELSE Absent]

Init ==
    /\ store = [id \in {} |-> BaseRecord(id, [dryRun |-> TRUE])]
    /\ start = [r \in RunIds |-> StartIdle]
    /\ calls = [c \in CallIds |-> CallIdle]
    /\ fs = InitialTree
    /\ applied = {}
    /\ verify = [v \in VerifyIds |-> VerifyIdle]
    /\ gate = GateIdle
    /\ parser = ParserIdle
    /\ coverage = CoverageIdle
    /\ storeCall = StoreCallIdle

Next ==
    \/ \E r \in RunIds, dryRun \in BOOLEAN : StartAgentRun(r, dryRun)
    \/ \E r \in RunIds, ok \in BOOLEAN : LoadTask(r, ok)
    \/ \E r \in RunIds, ok \in BOOLEAN, repo \in Repos : ScanRepo(r, ok, repo)
    \/ \E r \in RunIds : LoadFeedback(r)
    \/ \E r \in RunIds, status \in {"clean", "dirty", "error"} : PrepareBranch(r, status)
    \/ \E r \in RunIds, ok \in BOOLEAN : Checkout(r, ok)
    \/ \E r \in RunIds, kind \in {"payload", "unparseable", "throw"} : Propose(r, kind)
    \/ \E r \in RunIds, response \in EditResponses : DraftRequest(r, response)
    \/ \E r \in RunIds : DraftStore(r)
    \/ \E c \in CallIds, runId \in RunIds, approved \in BOOLEAN, feedback \in Feedbacks :
          ApproveOrRejectRun(c, runId, approved, feedback)
    \/ \E c \in CallIds, ok \in BOOLEAN : RejectAppend(c, ok)
    \/ \E c \in CallIds, response \in EditResponses : GateRequest(c, response)
    \/ \E c \in CallIds, ok \in BOOLEAN : WriteEdit(c, ok)
    \/ \E c \in CallIds, ok \in BOOLEAN : GetDiff(c, ok)
    \/ \E c \in CallIds, ok \in BOOLEAN : Commit(c, ok)
    \/ \E c \in CallIds, ok \in BOOLEAN : Push(c, ok)
    \/ \E c \in CallIds, outcome \in {"url", "none", "throw"} : Publish(c, outcome)
    \/ \E c \in CallIds, ok \in BOOLEAN : ApproveAppend(c, ok)

Spec == Init /\ [][Next]_vars

(***************************************************************************)
(* Review of one run by several approveOrRejectRun calls: one call more     *)
(* than Spec follows, made with the run id startAgentRun returned, on a    *)
(* start and a finalize whose collaborators all succeed.                   *)
(***************************************************************************)
ReviewCallIds == 1..(MaxCalls + 1)

ReviewFeedbacks == {NoFeedback, Feedback(<<" ", "f", " ">>)}

ReviewResponse == ResponsePayload(EditsWithTest)

InitReview ==
    /\ store = [id \in {} |-> BaseRecord(id, [dryRun |-> TRUE])]
    /\ start = [r \in RunIds |-> StartIdle]
    /\ calls = [c \in ReviewCallIds |-> CallIdle]
    /\ fs = InitialTree
    /\ applied = {}
    /\ verify = [v \in VerifyIds |-> VerifyIdle]
    /\ gate = GateIdle
    /\ parser = ParserIdle
    /\ coverage = CoverageIdle
    /\ storeCall = StoreCallIdle

NextReview ==
    \/ \E r \in RunIds, dryRun \in BOOLEAN : StartAgentRun(r, dryRun)
    \/ \E r \in RunIds : LoadTask(r, TRUE)
    \/ \E r \in RunIds : ScanRepo(r, TRUE, RepoTypeScript)
    \/ \E r \in RunIds : LoadFeedback(r)
    \/ \E r \in RunIds : PrepareBranch(r, "clean")
    \/ \E r \in RunIds : Checkout(r, TRUE)
    \/ \E r \in RunIds : Propose(r, "payload")
    \/ \E r \in RunIds : DraftRequest(r, ReviewResponse)
    \/ \E r \in RunIds : DraftStore(r)
    \/ \E c \in ReviewCallIds, runId \in RunIds, approved \in BOOLEAN,
          feedback \in ReviewFeedbacks :
          /\ start[runId].pc = "returned"
          /\ ApproveOrRejectRun(c, runId, approved, feedback)
    \/ \E c \in ReviewCallIds : RejectAppend(c, TRUE)
    \/ \E c \in ReviewCallIds : GateRequest(c, ReviewResponse)
    \/ \E c \in ReviewCallIds : WriteEdit(c, TRUE)
    \/ \E c \in ReviewCallIds : GetDiff(c, TRUE)
    \/ \E c \in ReviewCallIds : Commit(c, TRUE)
    \/ \E c \in ReviewCallIds : Push(c, TRUE)
    \/ \E c \in ReviewCallIds : Publish(c, "url")
    \/ \E c \in ReviewCallIds : ApproveAppend(c, TRUE)

SpecReview == InitReview /\ [][NextReview]_vars

(***************************************************************************)
(* Edit sets that name paths outside the repository: a run of a            *)
(* documentation repository (a dry run, which skips the checkout and the   *)
(* commit) whose reasoning service may answer with any of them, approved   *)
(* with or without feedback, and a verification attempt on any of them.    *)
(* One approval call and one attempt are followed, one at a time: the      *)
(* attempt begins only in a working copy no run was started in, and a run  *)
(* only in one no attempt was made in.                                     *)
(***************************************************************************)
P_src_dots_b_md == <<"s", "r", "c", "/", ".", ".", "/", "b", ".", "m", "d">>
P_sibling_x_md == <<".", ".", "/", "r", "2", "/", "x", ".", "m", "d">>
P_docs_up_up_x_md ==
    <<"d", "o", "c", "s", "/", ".", ".", "/", ".", ".", "/", "x", ".", "m", "d">>
P_etc_x == <<"/", "e", "t", "c", "/", "x">>

OutsidePaths == {P_sibling_x_md, P_docs_up_up_x_md, P_etc_x}

SafePaths == {P_src_a_ts, P_src_dots_b_md} \cup OutsidePaths

SafeTree == [p \in SafePaths |-> IF p = P_src_a_ts THEN "orig" ELSE Absent]

RECURSIVE SafeEditSeqs(_)
\* the edit sets of one to n edits over SafePaths
SafeEditSeqs(n) ==
    IF n = 0 THEN {}
    ELSE {<<Edit(p, "c")>> : p \in SafePaths}
             \cup SafeEditSeqs(n - 1)
             \cup {Append(e, Edit(p, "c")) : e \in SafeEditSeqs(n - 1), p \in SafePaths}

InitSafePaths ==
    /\ store = [id \in {} |-> BaseRecord(id, [dryRun |-> TRUE])]
    /\ start = [r \in RunIds |-> StartIdle]
    /\ calls = [c \in CallIds |-> CallIdle]
    /\ fs = SafeTree
    /\ applied = {}
    /\ verify = [v \in VerifyIds |-> VerifyIdle]
    /\ gate = GateIdle
    /\ parser = ParserIdle
    /\ coverage = CoverageIdle
    /\ storeCall = StoreCallIdle

NextSafePaths ==
    \/ \E r \in RunIds :
          /\ \A v \in {1} : verify[v].pc = "idle"
          /\ StartAgentRun(r, TRUE)
    \/ \E r \in RunIds : LoadTask(r, TRUE)
    \/ \E r \in RunIds : ScanRepo(r, TRUE, RepoDocs)
    \/ \E r \in RunIds : LoadFeedback(r)
    \/ \E r \in RunIds : PrepareBranch(r, "clean")
    \/ \E r \in RunIds : Propose(r, "payload")
    \/ \E r \in RunIds, edits \in SafeEditSeqs(MaxSafeEdits) :
          DraftRequest(r, ResponsePayload(edits))
    \/ \E r \in RunIds : DraftStore(r)
    \/ \E c \in {1}, runId \in RunIds, feedback \in ReviewFeedbacks :
          /\ start[runId].pc = "returned"
          /\ ApproveOrRejectRun(c, runId, TRUE, feedback)
    \/ \E c \in {1}, edits \in SafeEditSeqs(MaxSafeEdits) :
          GateRequest(c, ResponsePayload(edits))
    \/ \E c \in {1} : WriteEdit(c, TRUE)
    \/ \E c \in {1} : GetDiff(c, TRUE)
    \/ \E c \in {1} : ApproveAppend(c, TRUE)
    \/ \E v \in {1}, edits \in SafeEditSeqs(MaxSafeEdits) :
          /\ DOMAIN store = {}
          /\ VerifyBegin(v, edits, FALSE, TRUE)
    \/ \E v \in {1} : VerifySnapshot(v)
    \/ \E v \in {1}, ok \in BOOLEAN : VerifyWrite(v, ok)
    \/ \E v \in {1}, outcome \in {"exit0", "nonzero"} : VerifyExec(v, outcome, fs)
    \/ \E v \in {1} : VerifyParse(v)
    \/ \E v \in {1} : VerifyRestore(v)

SpecSafePaths == InitSafePaths /\ [][NextSafePaths]_vars


(***************************************************************************)
(* Properties.                                                             *)
(***************************************************************************)
Terminal == {"done", "rejected", "failed"}
Finished == {"returned", "thrown"}
FinalizeSteps == {"resolve", "write", "diff", "commit", "push", "publish"}

\* the call c takes its last step (returns or throws) in this step
CallFinishes(c) == calls[c].pc \notin Finished /\ calls'[c].pc \in Finished

\* C1: after a runTestsAndCollectCoverage call that overlaps no other call,
\* whatever the outcome of the test command, every path named in the edit set
\* holds what it held before the call (a missing file is missing again).
C1_VerifyRestoresTree ==
    [][\A v \in VerifyIds :
          (/\ verify[v].pc \notin {"idle", "returned"}
           /\ verify'[v].pc = "returned"
           /\ ~verify'[v].overlapped)
          => \A i \in 1..Len(verify'[v].edits) :
                fs'[verify'[v].edits[i].path] = verify'[v].before[verify'[v].edits[i].path]
      ]_vars

\* C1 witness: an attempt on a source file and a missing test file whose test
\* command timed out has returned, the source file holds its content again
\* and the test file is missing again.
C1_Witness ==
    \E v \in VerifyIds :
        /\ verify[v].pc = "returned"
        /\ verify[v].edits = EditsWithTest
        /\ verify[v].outcome = "timeout"
        /\ verify[v].before[P_src_a_test_ts] = Absent
        /\ fs[P_src_a_ts] = "orig"
        /\ fs[P_src_a_test_ts] = Absent

\* C2: an approveOrRejectRun call with approved=true on an existing run leaves
\* the stored status at done or failed when it finishes, whether the
\* collaborators return or throw.
C2_ApprovedCallEndsDoneOrFailed ==
    [][\A c \in CallIds :
          (CallFinishes(c) /\ calls'[c].approved /\ calls'[c].run # None)
          => store'[calls'[c].runId].status \in {"done", "failed"}
      ]_vars

\* the files the call wrote hold what it wrote
WrittenFilesOnDisk(c) ==
    \A i \in 1..Len(calls[c].wrote) :
        fs[calls[c].wrote[i]] = calls[c].payload.edits[i].content

\* no step after the failing one has acted
NoLaterStepRan(c) ==
    /\ calls[c].failedAt = "resolve" => calls[c].wrote = <<>>
    /\ calls[c].failedAt \in {"resolve", "write", "diff"} =>
          store[calls[c].runId].diffPreview # "diff"
    /\ calls[c].failedAt \in {"resolve", "write", "diff", "commit"} => calls[c].git = <<>>
    /\ calls[c].failedAt = "push" => calls[c].git = <<"commit">>
    /\ calls[c].failedAt = "publish" => calls[c].git = <<"commit", "push">>

\* C3: when a step of the finalize sequence throws, the files already written
\* stay on disk, no later step runs, and the run record has status failed with
\* the raw message of the thrown error in its error field.
C3_FinalizeThrowMarksRunFailed ==
    \A c \in CallIds :
        (calls[c].pc = "thrown" /\ calls[c].failedAt \in FinalizeSteps)
        => /\ WrittenFilesOnDisk(c)
           /\ NoLaterStepRan(c)
           /\ store[calls[c].runId].status = "failed"
           /\ store[calls[c].runId].error = calls[c].error

\* C4: done, rejected and failed are terminal: no step changes the status of a
\* run whose stored status is one of them.
C4_TerminalStatusNeverChanges ==
    [][\A r \in DOMAIN store :
          store[r].status \in Terminal => store'[r].status = store[r].status
      ]_vars

\* the start pipeline of r ends in its catch block in this step
StartMarksFailed(r) ==
    /\ start[r].pc \notin {"idle", "returned"}
    /\ start'[r].pc = "returned"
    /\ start'[r].threw

\* C5: a run whose start pipeline fails is not stored with status
\* awaiting_approval at any point before it is marked failed (in particular
\* not in the state it is marked from), and when marked failed its error is
\* the thrown message.
C5_FailingStartNeverAwaitingApproval ==
    [][\A r \in RunIds :
          StartMarksFailed(r)
          => /\ store[r].status # "awaiting_approval"
             /\ store'[r].status = "failed"
             /\ store'[r].error = start'[r].error
      ]_vars

\* C6: under any interleaving with approveOrRejectRun calls on the same run
\* id, startAgentRun returns a record with status failed when a stage threw
\* and awaiting_approval when all stages completed.
C6_StartReturnsAwaitingOrFailed ==
    \A r \in RunIds :
        start[r].pc = "returned"
        => start[r].result[1].status =
              (IF start[r].threw THEN "failed" ELSE "awaiting_approval")

\* the status of r is written as applying in this step, by an approval call
\* entered in this step with approved=true
BecomesApplyingOnlyByApproval ==
    \A r \in DOMAIN store' :
        (/\ store'[r].status = "applying"
         /\ (r \notin DOMAIN store \/ store[r].status # "applying"))
        => \E c \in CallIds :
              /\ calls[c].pc = "idle"
              /\ calls'[c].pc # "idle"
              /\ calls'[c].approved
              /\ calls'[c].runId = r

\* every edit file write and every commit of a call happens after the status
\* of its run was written as applying
WritesAndCommitsAfterApplying ==
    \A c \in CallIds :
        (calls'[c].wrote # calls[c].wrote \/ calls'[c].git # calls[c].git)
        => calls[c].runId \in applied

\* a git checkout of the start pipeline happens after the status of its run
\* was written as applying
CheckoutAfterApplying ==
    \A r \in RunIds : start'[r].git # start[r].git => r \in applied

\* C7 as stated: the status becomes applying only through approval, and no
\* working-tree mutation for the run (edit file write, branch checkout, commit)
\* happens before that status write.
C7_NoMutationBeforeApplying ==
    [][/\ BecomesApplyingOnlyByApproval
       /\ WritesAndCommitsAfterApplying
       /\ CheckoutAfterApplying
      ]_vars

\* C7 amended: the status becomes applying only through approveOrRejectRun
\* with approved=true, and no edit file write and no commit, push or publish
\* for the run happens before that status write (the branch checkout of a
\* non-dry-run start is made by the start pipeline, before any approval).
C7_NoEditWriteOrCommitBeforeApplying ==
    [][/\ BecomesApplyingOnlyByApproval
       /\ WritesAndCommitsAfterApplying
      ]_vars

\* C7 witness: an approved call has written an edit file and committed, and
\* the status of its run was written as applying before.
C7_Witness ==
    \E c \in CallIds :
        /\ calls[c].approved
        /\ Len(calls[c].wrote) > 0
        /\ calls[c].git = <<"commit">>
        /\ calls[c].runId \in applied
        /\ start[calls[c].runId].git = <<"checkout">>

\* t is s without its leading and trailing blanks
IsTrimOf(t, s) ==
    /\ Len(t) > 0
    /\ t[1] # " " /\ t[Len(t)] # " "
    /\ \E i \in 0..Len(s) :
          /\ i + Len(t) <= Len(s)
          /\ SubSeq(s, i + 1, i + Len(t)) = t
          /\ \A j \in 1..Len(s) : (j <= i \/ j > i + Len(t)) => s[j] = " "

IsBlank(fb) == ~fb.given \/ \A j \in 1..Len(fb.text) : fb.text[j] = " "

\* C8: approveOrRejectRun with approved=false writes no edit file and makes no
\* reasoning-service, git or publish call; it sets status rejected and the
\* final summary, stores the history it read with exactly one entry appended
\* (the trimmed feedback, or the default text when feedback is missing or
\* blank), and leaves every other field of the stored record unchanged.
C8_RejectFrame ==
    [][\A c \in CallIds :
          (calls[c].pc = "rejectAppend" /\ calls'[c].pc = "returned")
          => LET r == calls[c].runId
                 before == calls[c].run[1].feedbackHistory
                 after == store'[r].feedbackHistory
             IN  /\ store'[r].status = "rejected"
                 /\ store'[r].finalSummary = "Run rejected by reviewer."
                 /\ Len(after) = Len(before) + 1
                 /\ SubSeq(after, 1, Len(before)) = before
                 /\ IF IsBlank(calls[c].feedback)
                    THEN after[Len(after)] = <<"Rejected without detailed feedback.">>
                    ELSE IsTrimOf(after[Len(after)], calls[c].feedback.text)
                 /\ \A f \in RecordFields \ {"status", "finalSummary", "feedbackHistory"} :
                       store'[r][f] = store[r][f]
                 /\ fs' = fs
                 /\ calls'[c].wrote = <<>>
                 /\ calls'[c].git = <<>>
                 /\ calls'[c].loop.sent = <<>>
                 /\ calls'[c].result = <<store'[r]>>
      ]_vars

\* C8 witness: a reject call with blank feedback on a run awaiting approval
\* with staged edits has returned, and the run is rejected with the default
\* text as its only history entry.
C8_Witness ==
    \E c \in CallIds :
        /\ calls[c].pc = "returned"
        /\ ~calls[c].approved
        /\ calls[c].feedback = Feedback(<<" ">>)
        /\ calls[c].run[1].stagedEdits # None
        /\ store[calls[c].runId].status = "rejected"
        /\ store[calls[c].runId].feedbackHistory = <<DefaultRejectFeedback>>
        /\ store[calls[c].runId].stagedEdits # None

\* the loop ended because every attempt failed the gate
GateExhausted(loop) == loop.outcome = "threw" /\ loop.error = MsgGate

\* C9: when every attempt of the bounded loop fails the gate, in drafting or
\* in finalizing, the call fails, no edit of any attempt is written to disk or
\* stored as staged edits, and the run is failed.
C9_GateExhaustionFailsRun ==
    /\ \A r \in RunIds :
          (start[r].pc = "returned" /\ GateExhausted(start[r].loop))
          => /\ start[r].threw
             /\ start[r].result[1].status = "failed"
             /\ start[r].result[1].stagedEdits = None
             /\ store[r].stagedEdits = None
    /\ \A c \in CallIds :
          GateExhausted(calls[c].loop)
          => /\ calls[c].pc = "thrown"
             /\ calls[c].wrote = <<>>
             /\ store[calls[c].runId].stagedEdits = calls[c].run[1].stagedEdits
             /\ store[calls[c].runId].status = "failed"

RECURSIVE WithCorrections(_, _)
\* the feedback text followed by n copies of the corrective instruction
WithCorrections(initial, n) ==
    IF n = 0 THEN initial
    ELSE WithCorrections(initial, n - 1)
            \o <<"\n", "Revise the edits to include unit tests aligned to the detected stack and changed behavior.">>

\* what C10 says of one invocation of the gated loop entered with `initial`
\* on repository snapshot `repo`
LoopWithinContract(loop, initial, repo) ==
    /\ Len(loop.sent) <= 2
    /\ Len(loop.received) <= Len(loop.sent)
    /\ \A k \in 1..Len(loop.sent) : loop.sent[k] = WithCorrections(initial, k - 1)
    /\ \A k \in 1..Len(loop.received) :
          passesUnitTestGate(loop.received[k], repo)
          => /\ k = Len(loop.sent)
             /\ loop.outcome = "returned"
             /\ loop.payload.edits = loop.received[k]
    /\ loop.outcome = "returned"
          => /\ Len(loop.received) = Len(loop.sent)
             /\ passesUnitTestGate(loop.received[Len(loop.received)], repo)
    /\ (loop.outcome = "running" /\ Len(loop.received) > 0)
          => Len(loop.sent) = Len(loop.received) + 1

\* C10: one invocation of the gated edit loop makes at most 2 requests,
\* returns the first candidate that passes the gate without a further request,
\* and request k carries the initial feedback followed by k-1 copies of the
\* corrective instruction.  Stated of every step that changes a loop's locals.
C10_GatedLoopContract ==
    [][ /\ \A r \in RunIds :
            (start'[r].loop # start[r].loop /\ start'[r].loop.outcome # "idle")
            => LoopWithinContract(start'[r].loop,
                                  <<"Initial implementation draft for human review.">>,
                                  start'[r].repo[1])
        /\ \A c \in CallIds :
            (calls'[c].loop # calls[c].loop /\ calls'[c].loop.outcome # "idle")
            => LoopWithinContract(calls'[c].loop,
                                  IF calls'[c].feedback.given THEN calls'[c].feedback.text
                                  ELSE <<"No additional feedback">>,
                                  calls'[c].run[1].repo[1]) ]_vars

\* C10 witness: a drafting loop whose first candidate failed the gate has
\* returned the candidate of its second request.
C10_Witness ==
    \E r \in RunIds :
        /\ start[r].loop.outcome = "returned"
        /\ Len(start[r].loop.sent) = 2
        /\ start[r].loop.received = <<EditsSourceOnly, EditsWithTest>>

\* the paths of the judged set
GatePathsJudged == {gate.edits[i].path : i \in 1..Len(gate.edits)}
\* the language summary names a language that requires tests
ProfileRequiresTests == DOMAIN gate.repo.languageSummary \cap TestRequiringLanguages # {}
GateJudged == gate.pc \in {"judged", "rejudged"}

\* C11: passesUnitTestGate returns true exactly when the edit set is non-empty
\* and no path is source-like, or the profile has no test-requiring language,
\* or some path is test-like; it returns false for the empty set and for a
\* set with a source-like path, a test-requiring profile and no test-like path.
C11_GateCharacterisation ==
    GateJudged
    => /\ gate.result =
             (/\ Len(gate.edits) > 0
              /\ \/ \A p \in GatePathsJudged : ~isSourceLikePath(p)
                 \/ ~ProfileRequiresTests
                 \/ \E p \in GatePathsJudged : isTestLikePath(p))
       /\ Len(gate.edits) = 0 => ~gate.result
       /\ (/\ \E p \in GatePathsJudged : isSourceLikePath(p)
           /\ ProfileRequiresTests
           /\ \A p \in GatePathsJudged : ~isTestLikePath(p)) => ~gate.result

\* C11 witness: a set of two source files passes on a C# repository, whose
\* language summary names no test-requiring language.
C11_Witness ==
    /\ gate.pc = "judged"
    /\ gate.edits = <<Edit(P_a_cs, "c"), Edit(P_src_a_ts, "c")>>
    /\ gate.repo = RepoCSharp
    /\ gate.result

\* C12: on a profile that requires tests, a non-empty set of non-source paths
\* passes, a set of one source file and no test file fails, adding a test path
\* to a failing non-empty set makes it pass, and adding a test path never
\* turns a passing set into a failing one.
C12_GateMonotoneInTestPaths ==
    (GateJudged /\ ProfileRequiresTests)
    => /\ (Len(gate.edits) > 0 /\ \A p \in GatePathsJudged : ~isSourceLikePath(p))
          => gate.result
       /\ (/\ Len(gate.edits) = 1
           /\ isSourceLikePath(gate.edits[1].path)) => ~gate.result
       /\ (gate.pc = "rejudged" /\ isTestLikePath(gate.added))
          => /\ (Len(gate.edits) > 1 /\ ~gate.resultBefore) => gate.result
             /\ gate.resultBefore => gate.result

\* C12 witness: src/a.ts alone failed on a TypeScript repository, and passes
\* once src/a.test.ts is added.
C12_Witness ==
    /\ gate.pc = "rejudged"
    /\ gate.repo = RepoTypeScript
    /\ gate.edits = <<Edit(P_src_a_ts, "c"), Edit(P_src_a_test_ts, "c")>>
    /\ ~gate.resultBefore
    /\ gate.result

\* the approval call c has got past the context check of finalize
ReachedResolve(c) ==
    /\ calls[c].pc # "idle"
    /\ calls[c].approved
    /\ calls[c].run # None
    /\ ~MissingProposalContext(calls[c].run[1])

\* the staged edits of the record are non-empty and pass the gate
StagedStillPass(run) ==
    /\ run.stagedEdits # None
    /\ Len(run.stagedEdits[1]) > 0
    /\ passesUnitTestGate(run.stagedEdits[1], run.repo[1])

\* the call is writing, or has written, its final edit set
PastResolve(c) == calls[c].pc \notin {"idle", "gate", "thrown"} \/ Len(calls[c].wrote) > 0

\* the call applies exactly the staged edits and has made no request
AppliesStagedEdits(c) ==
    LET staged == calls[c].run[1].stagedEdits[1]
    IN  /\ calls[c].loop.sent = <<>>
        /\ calls[c].payload.edits = staged
        /\ Len(calls[c].wrote) <= Len(staged)
        /\ \A i \in 1..Len(calls[c].wrote) : calls[c].wrote[i] = staged[i].path
        /\ calls[c].pc = "returned" => Len(calls[c].wrote) = Len(staged)

\* the call obtains its final edit set from the gated retry loop
AppliesLoopResult(c) ==
    /\ Len(calls[c].loop.sent) >= 1
    /\ PastResolve(c)
          => /\ calls[c].loop.outcome = "returned"
             /\ calls[c].payload = calls[c].loop.payload
             /\ calls[c].payload.edits = calls[c].loop.received[Len(calls[c].loop.received)]

\* C13: an approval with missing or blank feedback on a run whose staged edits
\* are non-empty and pass the gate applies exactly the staged edits and makes
\* no reasoning-service request; in every other case the final edit set is
\* the one the gated retry loop returned.  The case is decided in the step
\* that enters the call and is kept by every later step of the call.
C13_StagedEditsReusedOnlyWithoutFeedback ==
    [][\A c \in CallIds :
          (calls'[c] # calls[c] /\ ReachedResolve(c)')
          => /\ calls[c].pc = "idle"
                  => (calls'[c].reused <=>
                        (IsBlank(calls'[c].feedback) /\ StagedStillPass(calls'[c].run[1])))
             /\ calls[c].pc # "idle" => calls'[c].reused = calls[c].reused
             /\ IF calls'[c].reused THEN AppliesStagedEdits(c)' ELSE AppliesLoopResult(c)'
      ]_vars

\* C13 witness: an approval with blank feedback has returned after writing the
\* two staged edits without any request, and so has not used the loop.
C13_Witness ==
    \E c \in CallIds :
        /\ calls[c].pc = "returned"
        /\ calls[c].approved
        /\ calls[c].feedback = Feedback(<<" ">>)
        /\ calls[c].reused
        /\ calls[c].loop.sent = <<>>
        /\ calls[c].wrote = <<P_src_a_ts, P_src_a_test_ts>>

\* the approval call c of a dry-run run returns in this step
DryRunApprovalReturns(c) ==
    /\ CallFinishes(c)
    /\ calls'[c].pc = "returned"
    /\ calls'[c].approved
    /\ calls'[c].run[1].input.dryRun

\* C14: for a run started with dryRun=true no branch checkout, commit, push or
\* publish call is made, in the start pipeline or in any call on the run; an
\* approval that returns has written the final edits and computed the diff,
\* and leaves the run done.
C14_DryRunMakesNoGitOrPublishCall ==
    [][/\ \A r \in RunIds :
            (start'[r].pc # "idle" /\ start'[r].input.dryRun) => start'[r].git = <<>>
       /\ \A c \in CallIds :
            (calls'[c].run # None /\ calls'[c].run[1].input.dryRun)
            => calls'[c].git = <<>>
       /\ \A c \in CallIds :
            DryRunApprovalReturns(c)
            => /\ calls'[c].wrote =
                     [i \in 1..Len(calls'[c].payload.edits) |->
                          calls'[c].payload.edits[i].path]
               /\ calls'[c].result[1].diffPreview = "diff"
               /\ calls'[c].result[1].status = "done"
               /\ store'[calls'[c].runId].status = "done"
      ]_vars

\* C14 witness: a dry-run run was approved, the call has returned done after
\* writing both staged files, and no git or publish call was made.
C14_Witness ==
    \E c \in CallIds :
        /\ calls[c].pc = "returned"
        /\ calls[c].approved
        /\ calls[c].run[1].input.dryRun
        /\ calls[c].wrote = <<P_src_a_ts, P_src_a_test_ts>>
        /\ calls[c].git = <<>>
        /\ start[calls[c].runId].git = <<>>
        /\ fs[P_src_a_test_ts] = "test"
        /\ store[calls[c].runId].status = "done"

\* the stage a start pipeline is in: its position in the fixed order
\* (the checkout belongs to branch preparation), 0 before, 8 once returned
StageRank(pc) ==
    CASE pc = "idle" -> 0
      [] pc = "loadTask" -> 1
      [] pc = "scanRepo" -> 2
      [] pc = "loadFeedback" -> 3
      [] pc \in {"prepareBranch", "checkout"} -> 4
      [] pc = "propose" -> 5
      [] pc = "draftChanges" -> 6
      [] OTHER -> 8

\* the results of the stages up to rank n are there, and no later one
StageResultsUpTo(g, n) ==
    /\ (g.task # Undefined) <=> n >= 1
    /\ (g.repo # None) <=> n >= 2
    /\ (g.feedbackBias # Undefined) <=> n >= 3
    /\ (g.branchName # Undefined) <=> n >= 4
    /\ (g.proposal # Undefined) <=> n >= 5
    /\ (g.stagedEdits # None) <=> n >= 6
    /\ n < 5 => g.loop.sent = <<>>

\* C15: the start pipeline runs fetch task, scan repository, load feedback
\* bias, prepare branch, request proposal, draft edits in this order; a stage
\* starts only when the previous one has completed, and when a stage throws
\* no later stage runs: the reasoning service is not called after a failed
\* task fetch, repository scan or branch preparation.
C15_StartStagesInOrder ==
    [][\A r \in RunIds :
          start'[r] # start[r]
          => LET from == StageRank(start[r].pc)
                 to == StageRank(start'[r].pc)
             IN  /\ from < 8
                 /\ to \in {from, from + 1, 8}
                 /\ to = from => from \in {4, 6}
                 /\ to = from + 1 => StageResultsUpTo(start'[r], from)
                 /\ (to = 8 /\ start'[r].threw)
                       => /\ StageResultsUpTo(start'[r], from - 1)
                          /\ start'[r].error \in {MsgFetchTask, MsgScan, MsgDirty, MsgGit}
                                => (from < 5 /\ start'[r].loop.sent = <<>>)
                 /\ (to = 8 /\ ~start'[r].threw)
                       => (from = 6 /\ StageResultsUpTo(start'[r], 6))
      ]_vars

\* C15 witness: a pipeline has failed in branch preparation (dirty working
\* tree) with task, repository and feedback bias loaded and no request made.
C15_Witness ==
    \E r \in RunIds :
        /\ start[r].pc = "returned"
        /\ start[r].threw
        /\ start[r].error = MsgDirty
        /\ start[r].task # Undefined /\ start[r].repo # None
        /\ start[r].feedbackBias # Undefined
        /\ start[r].proposal = Undefined
        /\ start[r].loop.sent = <<>>

\* the position of an approval call in the finalize sequence
FinalizeRank(pc) ==
    CASE pc = "idle" -> 0
      [] pc = "gate" -> 1
      [] pc = "write" -> 2
      [] pc = "diff" -> 3
      [] pc = "commit" -> 4
      [] pc = "push" -> 5
      [] pc = "publish" -> 6
      [] pc = "approveAppend" -> 7
      [] OTHER -> 9

FinalizeGitOrder == <<"commit", "push", "publish">>

\* the paths of the final edit set, in edit-set order
FinalPaths(call) == [i \in 1..Len(call.payload.edits) |-> call.payload.edits[i].path]

\* C16: in a non-dry-run approval the finalize steps happen in the order
\* resolve, write every edit in edit-set order, diff, commit, push, publish,
\* each only after the previous one succeeded; publish is not called before
\* push returned, nor push before commit returned.
C16_FinalizeStepsInOrder ==
    [][\A c \in CallIds :
          (/\ calls'[c] # calls[c]
           /\ calls'[c].approved
           /\ calls'[c].run # None
           /\ ~calls'[c].run[1].input.dryRun)
          => LET from == FinalizeRank(calls[c].pc)
                 to == FinalizeRank(calls'[c].pc)
                 old == calls[c]
                 new == calls'[c]
             IN  /\ to >= from
                 /\ (to < 9 /\ to # from) => (to = from + 1 \/ (from = 0 /\ to = 2))
                 /\ to = from => from \in {1, 2}
                 /\ new.wrote # old.wrote
                       => /\ from = 2
                          /\ Len(new.wrote) = Len(old.wrote) + 1
                          /\ new.wrote = SubSeq(FinalPaths(new), 1, Len(new.wrote))
                          /\ fs'[new.wrote[Len(new.wrote)]] =
                                new.payload.edits[Len(new.wrote)].content
                 /\ to \in 3..7 => new.wrote = FinalPaths(new)
                 /\ to \in 4..7 => store'[new.runId].diffPreview = "diff"
                 /\ new.git = SubSeq(FinalizeGitOrder, 1, Len(new.git))
                 /\ new.git # old.git
                       => /\ Len(new.git) = Len(old.git) + 1
                          /\ from = 3 + Len(new.git)
                 /\ to \in 4..6 => Len(new.git) = to - 4
                 /\ new.pc = "thrown" => (new.git = old.git /\ new.wrote = old.wrote)
      ]_vars

\* C16 witness: a non-dry-run approval has written both files, stored the
\* diff, committed, pushed and published, in this order.
C16_Witness ==
    \E c \in CallIds :
        /\ calls[c].approved
        /\ calls[c].pc = "approveAppend"
        /\ ~calls[c].run[1].input.dryRun
        /\ calls[c].wrote = <<P_src_a_ts, P_src_a_test_ts>>
        /\ calls[c].git = <<"commit", "push", "publish">>
        /\ store[calls[c].runId].diffPreview = "diff"

\* C17: the start pipeline executes one test/coverage verification attempt on
\* the staged edits before the run is presented for approval and stores its
\* report in the run record; the run stays in awaiting_approval whatever the
\* attempt's outcome.
C17_StartStoresTestReport ==
    \A r \in RunIds :
        (start[r].pc = "returned" /\ ~start[r].threw)
        => /\ start[r].result[1].testReport # None
           /\ store[r].testReport # None

\* the test command of attempt v did not exit with 0
CommandFailed(v) == verify[v].outcome \in {"nonzero", "timeout", "maxBuffer"}

\* the longest snippet a report may carry: 4000 characters and the marker
SnippetBound == 4000 + 15

\* C18: when the test command exits non-zero, times out or exceeds the output
\* bound, runTestsAndCollectCoverage returns (it does not throw) a report with
\* executed=true, success=false, a failure cause, and stdout and stderr
\* snippets of bounded length.
C18_FailedCommandIsReported ==
    \A v \in VerifyIds :
        (verify[v].pc = "returned" /\ CommandFailed(v))
        => /\ verify[v].report.executed
           /\ ~verify[v].report.success
           /\ verify[v].report.failureCause # Undefined
           /\ verify[v].report.stdoutSnippet # None
           /\ verify[v].report.stdoutSnippet[1] <= SnippetBound
           /\ verify[v].report.stderrSnippet # None
           /\ verify[v].report.stderrSnippet[1] <= SnippetBound

\* the drafting loop of r gets an unparseable response in this step, on an
\* attempt that is not the last one
UnparseableBeforeLastAttempt(r) ==
    /\ start[r].pc = "draftChanges"
    /\ start[r].loop.outcome = "running"
    /\ start[r].loop.attempt < MAX_EDIT_ATTEMPTS
    /\ start'[r].loop.error = MsgParse

\* the proposal stage of r gets an unparseable response in this step
UnparseableProposal(r) ==
    /\ start[r].pc = "propose"
    /\ start'[r].error = MsgParse

\* C19: an unparseable response on an attempt of the drafting loop that is not
\* the last one makes the loop send another request instead of failing the
\* run; an unparseable response to the proposal request fails the run.
C19_UnparseableDraftIsRetried ==
    [][\A r \in RunIds :
          /\ UnparseableBeforeLastAttempt(r)
                => /\ start'[r].loop.outcome = "running"
                   /\ Len(start'[r].loop.sent) = Len(start[r].loop.sent) + 1
                   /\ store'[r].status # "failed"
          /\ UnparseableProposal(r)
                => /\ start'[r].pc = "returned"
                   /\ store'[r].status = "failed"
      ]_vars

(***************************************************************************)
(* C20                                                                     *)
(***************************************************************************)
\* a response made of prose, a well-formed object and prose has been interpreted
ResponseParsed == parser.pc = "parsed" /\ parser.object \in ObjectTexts

\* the object of the response is what parseJsonObject returned
ReturnsThatObject == parser.result = Returned(JSONParse(parser.object))

HasOpeningDelimiter(text) == \E i \in 1..Len(text) : text[i] \in {"{", "["}

\* C20 as stated: for every text made of arbitrary prose, one well-formed JSON
\* object and arbitrary prose, parseJsonObject returns that object.
C20_ProseWrappedObjectIsReturned == ResponseParsed => ReturnsThatObject

\* C20 amended: when the prose before the object holds no "{" and no "[",
\* parseJsonObject returns that object, whatever prose follows it and whatever
\* braces, brackets and escaped quotes the object's string literals hold.
C20_ObjectAfterDelimiterFreeProseIsReturned ==
    (ResponseParsed /\ ~HasOpeningDelimiter(parser.lead)) => ReturnsThatObject

\* an object whose string literal holds "}" is returned whole, from between
\* prose that holds a quote before it and a closing brace after it
C20_Witness ==
    /\ ResponseParsed
    /\ parser.lead = <<Quote>>
    /\ parser.object = Obj_close_brace_in_string
    /\ parser.trail = <<"}">>
    /\ parser.result.kind = "returned"
    /\ parser.result.value = JObject(<<<< <<"a">>, JString(<<"}">>) >>>>)

(***************************************************************************)
(* C21                                                                     *)
(***************************************************************************)
\* an object text with one invalid backslash has been interpreted
EscapeResponseParsed == parser.pc = "parsed" /\ parser.intended.t = "object"

\* C21: for every otherwise-valid object text in which exactly one backslash
\* inside a string literal is not followed by a recognized escape character or
\* a four-hex-digit unicode escape, parseJsonObject returns the object in which
\* that backslash is a literal backslash and every other value is unchanged.
C21_InvalidEscapeBecomesLiteralBackslash ==
    EscapeResponseParsed
        => /\ JSONParse(parser.raw) = SyntaxError
           /\ parser.result = Returned(parser.intended)

\* the value "\\\x\"" of member k comes back as the three characters
\* backslash, backslash, x followed by a quote, and member z keeps its line break
C21_Witness ==
    /\ EscapeResponseParsed
    /\ parser.raw = <<"{", Quote, "k", Quote, ":", Quote, Backslash, Backslash,
                      Backslash, "x", Backslash, Quote, Quote, ",",
                      Quote, "z", Quote, ":", Quote, Backslash, "n", Quote, "}">>
    /\ parser.result.kind = "returned"
    /\ parser.result.value =
           JObject(<< << <<"k">>, JString(<<Backslash, Backslash, "x", Quote>>) >>,
                      << <<"z">>, JString(<<"\n">>) >> >>)

(***************************************************************************)
(* C22                                                                     *)
(***************************************************************************)
\* attempt v has returned without a test strategy
ReturnedWithoutStrategy(v) == verify[v].pc = "returned" /\ ~verify[v].strategy

EditPaths(v) == {verify[v].edits[i].path : i \in 1..Len(verify[v].edits)}

\* the report of the early return, and no command run and no path written or
\* deleted by the attempt
ReportsLimitation(v) ==
    /\ ~verify[v].report.executed
    /\ ~verify[v].report.success
    /\ verify[v].report.overallLineCoveragePercent = None
    /\ Len(verify[v].report.notes) > 0
    /\ verify[v].outcome = "none"
    /\ verify[v].touched = {}

\* C22 as stated: when no test strategy matches the repository,
\* runTestsAndCollectCoverage returns executed=false, success=false, null
\* overall coverage and explanatory notes, runs no command, and reads, writes
\* and deletes none of the edit-set paths.
C22_NoStrategyTouchesNoEditPath ==
    \A v \in VerifyIds :
        ReturnedWithoutStrategy(v)
        => ReportsLimitation(v) /\ verify[v].reads \cap EditPaths(v) = {}

\* C22 amended: as stated, except that strategy detection reads package.json
\* in a TypeScript or JavaScript repository, also when an edit names it; no
\* other file is read, no snapshot is taken and nothing is written or deleted.
C22_NoStrategyReadsOnlyManifest ==
    \A v \in VerifyIds :
        ReturnedWithoutStrategy(v)
        => /\ ReportsLimitation(v)
           /\ verify[v].reads \subseteq {P_package_json}
           /\ verify[v].originalContents = <<>>

\* an attempt whose edit set names package.json returned without a strategy
\* after reading package.json, and the tree is as it was
C22_Witness ==
    \E v \in VerifyIds :
        /\ ReturnedWithoutStrategy(v)
        /\ verify[v].edits = <<Edit(P_package_json, "manifest2")>>
        /\ verify[v].reads = {P_package_json}
        /\ verify[v].report = NoStrategyReport
        /\ fs = verify[v].before

(***************************************************************************)
(* C23                                                                     *)
(***************************************************************************)
CoverageReported == coverage.pc = "reported"

Abs(n) == IF n < 0 THEN 0 - n ELSE n

\* hundredths is a two-decimal value nearest to 100 * covered / total
NearestHundredth(hundredths, covered, total) ==
    2 * Abs(10000 * covered - hundredths * total) <= total

\* entry holds the aggregate the parsed report has for path, or zero counts
\* and a null percentage when it has none
HoldsAggregateFor(entry, path) ==
    LET parsed == coverage.coverageByFile
        at == {k \in 1..Len(parsed) : parsed[k].key = path}
    IN  /\ entry.path = path
        /\ IF at = {}
           THEN entry.coveredLines = 0 /\ entry.totalLines = 0
                /\ entry.lineCoveragePercent = None
           ELSE \A k \in at : /\ entry.coveredLines = parsed[k].value.coveredLines
                               /\ entry.totalLines = parsed[k].value.totalLines

\* C23: for every executed attempt, on the success and on the failure path,
\* fileCoverage has exactly one entry per edit, in edit-set order, holding the
\* parsed aggregate for that path or 0, 0 and null when the report has no entry
\* for it; the overall percentage is the sum of covered lines over the sum of
\* total lines of these entries, and null when that sum of totals is 0.
C23_CoverageMappedOntoEditSet ==
    CoverageReported
    => LET entries == coverage.report.fileCoverage
           overall == coverage.report.overallLineCoveragePercent
           sumTotal == SumField(entries, "totalLines", Len(entries))
           sumCovered == SumField(entries, "coveredLines", Len(entries))
       IN  /\ coverage.report.executed
           /\ Len(entries) = Len(coverage.edits)
           /\ \A i \in 1..Len(entries) :
                 HoldsAggregateFor(entries[i], NormalizeSlashes(coverage.edits[i].path))
           /\ (overall = None) <=> (sumTotal = 0)
           /\ overall # None => NearestHundredth(overall[1], sumCovered, sumTotal)

\* the failure path, an lcov report with 8 of 10 lines of src/a.ts hit, and an
\* edit set naming src/a.ts and a file the report does not mention
C23_Witness ==
    /\ CoverageReported
    /\ ~coverage.report.success
    /\ coverage.file = Some(LcovEightOfTen)
    /\ coverage.edits = <<Edit(P_src_a_ts, "c"), Edit(P_src_a_test_ts, "c")>>
    /\ coverage.report.fileCoverage =
          <<[path |-> P_src_a_ts, coveredLines |-> 8, totalLines |-> 10,
             lineCoveragePercent |-> Some(8000)],
            [path |-> P_src_a_test_ts, coveredLines |-> 0, totalLines |-> 0,
             lineCoveragePercent |-> None]>>
    /\ coverage.report.overallLineCoveragePercent = Some(8000)

FailsOnDirtyTree(r) == start[r].error # MsgDirty /\ start'[r].error = MsgDirty

\* C25: a non-dry-run start on a working tree with uncommitted changes fails
\* in branch preparation before any checkout or other mutation: no git
\* command of the run has changed the repository, no file is written, no later
\* stage runs (no proposal, no draft request), and the run becomes failed.
C25_DirtyTreeFailsBeforeAnyMutation ==
    [][\A r \in RunIds :
          /\ FailsOnDirtyTree(r)
                => /\ start[r].pc = "prepareBranch"
                   /\ ~start[r].input.dryRun
                   /\ start'[r].pc = "returned" /\ start'[r].threw
                   /\ start'[r].git = <<>>
                   /\ fs' = fs
                   /\ start'[r].branchName = Undefined
                   /\ start'[r].proposal = Undefined
                   /\ start'[r].stagedEdits = None
                   /\ start'[r].loop.sent = <<>>
                   /\ store'[r].status = "failed"
                   /\ store'[r].error = MsgDirty
          /\ (start[r].pc = "returned" /\ start[r].error = MsgDirty)
                => start'[r] = start[r]
      ]_vars

\* a non-dry-run start has failed on the working tree check and its record is
\* failed with that message
C25_Witness ==
    \E r \in RunIds :
        /\ start[r].pc = "returned"
        /\ ~start[r].input.dryRun
        /\ start[r].error = MsgDirty
        /\ start[r].git = <<>>
        /\ r \in DOMAIN store
        /\ store[r].status = "failed"
        /\ store[r].error = MsgDirty

(***************************************************************************)
(* C26                                                                     *)
(***************************************************************************)
\* this step is a call of updateRun
UpdateRunCalled == storeCall'.n # storeCall.n /\ storeCall'.op = "updateRun"

\* C26: updateRun replaces exactly the fields named in the update on the
\* record of the given run id and leaves that record's other fields and every
\* other run's record unchanged; no operation of the store removes a record;
\* updateRun on an unknown run id throws without changing the store.
C26_UpdateRunMergesNamedFields ==
    [][/\ DOMAIN store \subseteq DOMAIN store'
       /\ UpdateRunCalled
             => LET runId == storeCall'.runId
                    update == storeCall'.update[1]
                IN  IF runId \notin DOMAIN store
                    THEN storeCall'.threw /\ store' = store
                    ELSE /\ ~storeCall'.threw
                         /\ DOMAIN store' = DOMAIN store
                         /\ \A id \in DOMAIN store \ {runId} : store'[id] = store[id]
                         /\ DOMAIN store'[runId] = DOMAIN store[runId]
                         /\ \A f \in DOMAIN store[runId] :
                               store'[runId][f] = IF f \in DOMAIN update
                                                  THEN update[f]
                                                  ELSE store[runId][f]
                         /\ storeCall'.result = Some(store'[runId])
      ]_vars

\* two runs are stored and updateRun has just marked one of them failed: it
\* keeps its input, the other run is as it was put
C26_Witness ==
    /\ storeCall.op = "updateRun"
    /\ ~storeCall.threw
    /\ storeCall.update = Some(StartFailedUpdate(MsgGit))
    /\ \E other \in DOMAIN store \ {storeCall.runId} :
          store[other] = BaseRecord(other, [dryRun |-> TRUE])
    /\ store[storeCall.runId] =
          [BaseRecord(storeCall.runId, [dryRun |-> FALSE])
             EXCEPT !.status = "failed", !.error = MsgGit]

(***************************************************************************)
(* C27                                                                     *)
(***************************************************************************)
\* every attempt of the working tree has returned
AllAttemptsReturned == \A v \in DOMAIN verify : verify[v].pc = "returned"

\* path was written or restored by some attempt
TouchedBySomeAttempt(path) == \E v \in DOMAIN verify : path \in verify[v].touched

\* path holds the content some attempt was given as a candidate edit for it
HoldsCandidateContent(path) ==
    \E v \in DOMAIN verify : \E i \in 1..Len(verify[v].edits) :
        verify[v].edits[i].path = path /\ verify[v].edits[i].content = fs[path]

\* an attempt that has not begun can begin: the attempts in flight do not
\* hold it back
NextAttemptCanBegin ==
    \A v \in DOMAIN verify :
        (/\ verify[v].pc = "idle"
         /\ \A w \in DOMAIN verify : w < v => verify[w].pc # "idle")
        => ENABLED VerifyBegin(v, EditsSourceOnly, TRUE, TRUE)

\* C27: verification attempts on one working tree are not mutually excluded:
\* an attempt begins whatever the others are doing, and when the steps of two
\* attempts interleave the tree can be left with a touched path that holds a
\* candidate edit's content (or that exists although it did not before)
\* instead of its original state; nothing else is left behind.
C27_AttemptsNotMutuallyExcluded ==
    /\ NextAttemptCanBegin
    /\ AllAttemptsReturned
          => \A path \in DOMAIN fs :
                fs[path] # VerifyTree[path]
                => /\ TouchedBySomeAttempt(path)
                   /\ HoldsCandidateContent(path)
                   /\ \E v \in DOMAIN verify : verify[v].overlapped

\* two attempts interleaved and returned: the source file holds the candidate
\* content, or the test file exists although it did not before
C27_Witness ==
    /\ AllAttemptsReturned
    /\ \E v, w \in DOMAIN verify :
          v # w /\ verify[v].overlapped /\ verify[w].overlapped
    /\ \/ /\ TouchedBySomeAttempt(P_src_a_ts)
          /\ VerifyTree[P_src_a_ts] = "orig"
          /\ fs[P_src_a_ts] = "impl"
       \/ /\ TouchedBySomeAttempt(P_src_a_test_ts)
          /\ VerifyTree[P_src_a_test_ts] = Absent
          /\ fs[P_src_a_test_ts] = "test"

(***************************************************************************)
(* C28                                                                     *)
(***************************************************************************)
IsPrefixOf(s, t) == Len(s) <= Len(t) /\ SubSeq(t, 1, Len(s)) = s

\* C28: for a single run, feedbackHistory only grows by appending: under any
\* interleaving of approve and reject calls on the same run id, the history
\* stored by each update has the previously stored history as a prefix, so no
\* reviewer note is lost.
C28_FeedbackHistoryOnlyGrows ==
    [][\A r \in DOMAIN store :
          IsPrefixOf(store[r].feedbackHistory, store'[r].feedbackHistory)
      ]_vars

(***************************************************************************)
(* C29                                                                     *)
(***************************************************************************)
\* the record the call read on entry was done or rejected
ReadSettledRun(call) ==
    call.approved /\ call.run # None /\ call.run[1].status \in {"done", "rejected"}

\* C29: approveOrRejectRun performs no status check: an approval call on a
\* run already done or rejected marks it applying and runs the finalize
\* sequence again; when the call returns, the edit files have been written
\* again, a further commit, push and publish have been made unless the run is
\* a dry run, and the stored status is done.
C29_ApprovalOfSettledRunFinalizesAgain ==
    [][\A c \in DOMAIN calls :
          /\ (calls[c].pc = "idle" /\ ReadSettledRun(calls'[c]))
                => /\ store'[calls'[c].runId].status = "applying"
                   /\ calls'[c].pc \in {"gate", "write"}
          /\ (calls[c].pc # "returned" /\ calls'[c].pc = "returned"
                 /\ ReadSettledRun(calls'[c]))
                => /\ Len(calls'[c].wrote) > 0
                   /\ calls'[c].wrote = FinalPaths(calls'[c])
                   /\ calls'[c].git = IF calls'[c].run[1].input.dryRun
                                       THEN <<>> ELSE FinalizeGitOrder
                   /\ store'[calls'[c].runId].status = "done"
      ]_vars

\* a non-dry-run run was approved twice: the second call read the record as
\* done, and both calls committed, pushed and published
C29_Witness ==
    \E c, d \in DOMAIN calls :
        /\ c # d
        /\ calls[c].pc = "returned" /\ calls[d].pc = "returned"
        /\ calls[d].approved /\ calls[d].git = FinalizeGitOrder
        /\ ReadSettledRun(calls[c])
        /\ calls[c].run[1].status = "done"
        /\ ~calls[c].run[1].input.dryRun
        /\ calls[c].git = FinalizeGitOrder
        /\ calls[c].wrote = FinalPaths(calls[c])
        /\ store[calls[c].runId].status = "done"

(***************************************************************************)
(* C30                                                                     *)
(***************************************************************************)
RECURSIVE SplitOnSlash(_, _, _)
\* the segments of a path between its slashes, the file name last
SplitOnSlash(path, i, current) ==
    IF i > Len(path) THEN <<current>>
    ELSE IF path[i] = "/" THEN <<current>> \o SplitOnSlash(path, i + 1, <<>>)
    ELSE SplitOnSlash(path, i + 1, Append(current, path[i]))

TestDirectoryNames ==
    { <<"t", "e", "s", "t">>, <<"t", "e", "s", "t", "s">>,
      <<"_", "_", "t", "e", "s", "t", "s", "_", "_">> }

\* some directory segment of the path, at any depth, is named test, tests or
\* __tests__
HasTestDirectorySegment(path) ==
    LET segments == SplitOnSlash(ToLowerCase(NormalizeSlashes(path)), 1, <<>>)
    IN  \E k \in 1..(Len(segments) - 1) : segments[k] \in TestDirectoryNames

\* C30: every path that has a directory segment named test, tests or
\* __tests__ at any depth, including as its first segment (tests/foo.ts), is
\* classified test-like, so it is never source-like and its presence makes a
\* non-empty edit set pass the gate.
C30_TestDirectorySegmentIsTestLike ==
    GateJudged
    => \A i \in 1..Len(gate.edits) :
          HasTestDirectorySegment(gate.edits[i].path)
          => /\ isTestLikePath(gate.edits[i].path)
             /\ ~isSourceLikePath(gate.edits[i].path)
             /\ gate.result

(***************************************************************************)
(* C31                                                                     *)
(***************************************************************************)
\* the text parseJsonObject hands to the span extractor
Normalized == Trim(stripCodeFences(parser.raw))

\* the position of the first "{" or "[" of the text, 0 when it has none
FirstDelimiter(text) ==
    LET at == {i \in 1..Len(text) : text[i] \in {"{", "["}}
    IN  IF at = {} THEN 0 ELSE CHOOSE i \in at : \A j \in at : i <= j

RECURSIVE StringStateBefore(_, _, _)
\* reading from position from: whether position k is outside any
\* double-quoted string ("out"), inside one ("in"), or inside one and escaped
\* by a backslash ("esc")
StringStateBefore(text, from, k) ==
    IF k <= from THEN "out"
    ELSE LET before == StringStateBefore(text, from, k - 1)
             c == text[k - 1]
         IN  IF before = "out" THEN (IF c = Quote THEN "in" ELSE "out")
             ELSE IF before = "esc" THEN "in"
             ELSE IF c = Backslash THEN "esc"
             ELSE IF c = Quote THEN "out"
             ELSE "in"

\* the occurrences of delimiter c outside strings in text[from..k]
DelimitersOutsideStrings(text, from, k, c) ==
    {j \in from..k : text[j] = c /\ StringStateBefore(text, from, j) = "out"}

\* the nesting depth of the opening delimiter's kind after position k
DepthAfter(text, from, k) ==
    LET closing == IF text[from] = "{" THEN "}" ELSE "]"
    IN  Cardinality(DelimitersOutsideStrings(text, from, k, text[from]))
          - Cardinality(DelimitersOutsideStrings(text, from, k, closing))

\* the positions at which a span that starts at from is balanced (the depth
\* changes at delimiters only, so the first of them holds a closing delimiter)
BalancedEnds(text, from) ==
    {k \in from..Len(text) :
        text[k] \in {"}", "]"} /\ DepthAfter(text, from, k) = 0}

\* C31: the span extractor starts at the first "{" or "[" of the text and
\* returns the shortest span from there at which the nesting depth returns to
\* zero, ignoring delimiters inside double-quoted strings and treating a
\* backslash inside a string as escaping the next character; when the text has
\* no delimiter or the depth never returns to zero, parseJsonObject fails with
\* an error whose preview is the first characters of the text, at most 240.
C31_ShortestBalancedSpanOrBoundedPreview ==
    parser.pc = "parsed"
    => LET first == FirstDelimiter(Normalized)
           ends == IF first = 0 THEN {} ELSE BalancedEnds(Normalized, first)
       IN  IF ends = {}
           THEN /\ parser.jsonText = None
                /\ parser.result.kind = "threw"
                /\ parser.result.error = "Model response did not contain JSON object"
                /\ Len(parser.result.preview) <= 240
                /\ IsPrefixOf(parser.result.preview, Normalized)
                /\ Len(parser.result.preview) < 240
                      => parser.result.preview = Normalized
           ELSE /\ parser.jsonText =
                     Some(SubSeq(Normalized, first,
                                 CHOOSE k \in ends : \A j \in ends : k <= j))
                /\ parser.result.error # "Model response did not contain JSON object"

\* a text of 244 characters whose only closing brace is inside a string: the
\* error's preview holds its first 240 characters
C31_Witness ==
    /\ parser.pc = "parsed"
    /\ parser.raw = Repeat("a", PreviewLength) \o <<"{", Quote, "}", Quote>>
    /\ parser.result.preview = Repeat("a", PreviewLength)
    /\ parser.jsonText = None
    /\ parser.result.kind = "threw"
    /\ Len(parser.result.preview) = 240

(***************************************************************************)
(* C32                                                                     *)
(***************************************************************************)
ArrayResponseParsed == parser.pc = "parsed" /\ parser.intended.t = "array"

\* C32: when the parsed value is an array, parseJsonObject returns the first
\* element, in array order, that is a non-null non-array object, skipping
\* scalars, nulls and nested arrays; it fails with an error when the array
\* holds no such element.
C32_ArrayGivesFirstObjectElement ==
    ArrayResponseParsed
    => LET elements == parser.intended.v
           objects == {k \in 1..Len(elements) : elements[k].t = "object"}
       IN  IF objects = {}
           THEN /\ parser.result.kind = "threw"
                /\ parser.result.error = "Model response JSON was not an object"
           ELSE \E k \in objects :
                   /\ \A j \in 1..(k - 1) : j \notin objects
                   /\ parser.result = Returned(elements[k])

\* an array of a nested array that holds an object, the object {"b": []} and
\* the object {"a": 1}: the second element is returned
C32_Witness ==
    /\ ArrayResponseParsed
    /\ Len(parser.intended.v) = 3
    /\ parser.intended.v[1].t = "array"
    /\ parser.intended.v[3].t = "object"
    /\ parser.result = Returned(JObject(<< <<<<"b">>, JArray(<<>>)>> >>))

(***************************************************************************)
(* C39                                                                     *)
(***************************************************************************)
RECURSIVE OnlyValidEscapesFrom(_, _, _)
\* from position i on, every backslash inside a string literal begins a valid
\* JSON escape: one of the simple escapes, or u and four hex digits
OnlyValidEscapesFrom(text, i, inString) ==
    IF i > Len(text) THEN TRUE
    ELSE IF ~inString THEN OnlyValidEscapesFrom(text, i + 1, text[i] = Quote)
    ELSE IF text[i] = Quote THEN OnlyValidEscapesFrom(text, i + 1, FALSE)
    ELSE IF text[i] # Backslash THEN OnlyValidEscapesFrom(text, i + 1, TRUE)
    ELSE IF i + 1 <= Len(text) /\ text[i + 1] \in {Quote, Backslash, "/", "b", "f", "n", "r", "t"}
    THEN OnlyValidEscapesFrom(text, i + 2, TRUE)
    ELSE IF /\ i + 5 <= Len(text) /\ text[i + 1] = "u"
            /\ \A k \in (i + 2)..(i + 5) : IsHexDigit(text[k])
    THEN OnlyValidEscapesFrom(text, i + 6, TRUE)
    ELSE FALSE

\* C39: repairInvalidStringEscapes leaves unchanged every text whose string
\* literals contain only valid JSON escapes, and applying it twice gives the
\* same text as applying it once.
C39_RepairKeepsValidTextAndIsIdempotent ==
    /\ (parser.pc \in {"repaired", "repairedAgain"}
           /\ OnlyValidEscapesFrom(parser.raw, 1, FALSE))
          => parser.repaired = parser.raw
    /\ parser.pc = "repairedAgain" => parser.repairedAgain = parser.repaired

\* the text "\x\n (an invalid and a valid escape in a string) is repaired by
\* doubling the first backslash, and repairing the result changes nothing
C39_Witness ==
    /\ parser.pc = "repairedAgain"
    /\ parser.raw = <<Quote, Backslash, "x", Backslash, "n">>
    /\ parser.repaired = <<Quote, Backslash, Backslash, "x", Backslash, "n">>
    /\ parser.repairedAgain = parser.repaired

(***************************************************************************)
(* C33                                                                     *)
(***************************************************************************)
\* the file the DA line at position i is counted for: the file of the nearest
\* SF or end_of_record line before it, when that line is an SF line
LcovOwner(lines, i) ==
    LET marks == {j \in 1..(i - 1) : lines[j].kind \in {"SF", "end_of_record"}}
    IN  IF marks = {} THEN None
        ELSE LET last == CHOOSE j \in marks : \A k \in marks : k <= j
             IN  IF lines[last].kind = "SF" THEN Some(lines[last].file) ELSE None

\* the DA lines of every record of the report that names the file
LcovDataLines(lines, file) ==
    {i \in 1..Len(lines) : lines[i].kind = "DA" /\ LcovOwner(lines, i) = Some(file)}

LcovParsed ==
    coverage.pc = "parsed" /\ coverage.parserName = "lcov" /\ coverage.file # None

\* C33: for every lcov report, the aggregate of a source file has totalLines
\* equal to the number of DA records of that file in the report and
\* coveredLines equal to the number of those with hit count > 0, counted over
\* all records of the report that name that file.
C33_LcovAggregateCountsAllRecordsOfFile ==
    LcovParsed =>
        LET lines == coverage.file[1]
        IN  \A i \in 1..Len(lines) :
               lines[i].kind = "SF" =>
                   LET data == LcovDataLines(lines, lines[i].file)
                   IN  MapGet(coverage.coverageByFile, NormalizeSlashes(lines[i].file)) =
                           Some(CoverageAggregate(
                                    Cardinality({d \in data : lines[d].hits > 0}),
                                    Cardinality(data)))

(***************************************************************************)
(* C34                                                                     *)
(***************************************************************************)
RECURSIVE SumStatements(_, _)
\* the sum of numStatements over the lines at the given positions
SumStatements(lines, positions) ==
    IF positions = {} THEN 0
    ELSE LET i == CHOOSE j \in positions : TRUE
         IN  lines[i].numStmt + SumStatements(lines, positions \ {i})

GoRecordsOf(lines, file) ==
    {i \in 1..Len(lines) : lines[i].kind = "record" /\ lines[i].file = file}

GoProfileParsed ==
    /\ coverage.pc = "parsed"
    /\ coverage.parserName = "go-coverprofile"
    /\ coverage.file # None

\* C34: for every Go coverage profile, the aggregate of a path has totalLines
\* equal to the sum of numStatements over all records of that path and
\* coveredLines equal to the sum of numStatements over those records whose
\* count is > 0; mode lines and malformed lines contribute nothing.
C34_GoAggregateSumsStatementsOfPath ==
    GoProfileParsed =>
        LET lines == coverage.file[1]
            files == {lines[i].file : i \in {j \in 1..Len(lines) : lines[j].kind = "record"}}
        IN  /\ \A file \in files :
                  MapGet(coverage.coverageByFile, NormalizeSlashes(file)) =
                      Some(CoverageAggregate(
                               SumStatements(lines, {i \in GoRecordsOf(lines, file) :
                                                        lines[i].count > 0}),
                               SumStatements(lines, GoRecordsOf(lines, file))))
            /\ Len(coverage.coverageByFile) = Cardinality(files)

\* a profile with a mode line, a malformed line and two records of src/a.ts,
\* one of them never run: 1 of 3 statements covered
C34_Witness ==
    /\ GoProfileParsed
    /\ coverage.file = Some(<<GoMode, GoRecord(P_src_a_ts, 1, 1), GoMalformed,
                              GoRecord(P_src_a_ts, 2, 0)>>)
    /\ coverage.coverageByFile =
           <<[key |-> NormalizeSlashes(P_src_a_ts), value |-> CoverageAggregate(1, 3)]>>

(***************************************************************************)
(* C35                                                                     *)
(***************************************************************************)
StrategyResolved == coverage.pc = "resolved"

\* a JS/TS repository with one of the three package scripts
NodeMatches ==
    /\ \E l \in {"TypeScript", "JavaScript"} : l \in DOMAIN coverage.repo.languageSummary
    /\ coverage.tree.scripts \cap {"test:coverage", "coverage", "test"} # {}

PythonMatches ==
    \/ "Python" \in DOMAIN coverage.repo.languageSummary
    \/ coverage.tree.files \cap {"pyproject.toml", "requirements.txt"} # {}

GoMatches ==
    "Go" \in DOMAIN coverage.repo.languageSummary \/ "go.mod" \in coverage.tree.files

JvmRepository == \E l \in {"Java", "Kotlin"} : l \in DOMAIN coverage.repo.languageSummary

MavenMatches == JvmRepository /\ coverage.tree.files \cap {"pom.xml", "mvnw"} # {}

GradleMatches ==
    /\ JvmRepository
    /\ coverage.tree.files \cap
           {"build.gradle", "build.gradle.kts", "gradlew", "gradlew.bat"} # {}

\* the words of the command after the package manager
NodeScriptWords ==
    IF "test:coverage" \in coverage.tree.scripts THEN <<"run", "test:coverage">>
    ELSE IF "coverage" \in coverage.tree.scripts THEN <<"run", "coverage">>
    ELSE <<"run", "test", "--", "--coverage">>

ReturnedAwaitingApproval(r) ==
    /\ start[r].pc = "returned"
    /\ start[r].result # None
    /\ start[r].result[1].status = "awaiting_approval"

\* C36: every record startAgentRun returns with status awaiting_approval carries
\* task, repository snapshot, proposal, branch name and a non-empty staged
\* edit set that passes the unit-test gate.
C36_AwaitingApprovalRecordIsComplete ==
    \A r \in RunIds :
        ReturnedAwaitingApproval(r) =>
            LET record == start[r].result[1]
            IN  /\ record.task # Undefined
                /\ record.repo # None
                /\ record.proposal # Undefined
                /\ record.branchName # Undefined
                /\ record.stagedEdits # None
                /\ Len(record.stagedEdits[1]) > 0
                /\ passesUnitTestGate(record.stagedEdits[1], record.repo[1])

\* a start call returned an awaiting_approval record whose staged set holds a
\* source file and a test
C36_Witness ==
    \E r \in RunIds :
        /\ ReturnedAwaitingApproval(r)
        /\ ~start[r].threw
        /\ \E i \in 1..Len(start[r].result[1].stagedEdits[1]) :
              isTestLikePath(start[r].result[1].stagedEdits[1][i].path)

(***************************************************************************)
(* C37                                                                     *)
(***************************************************************************)
\* the start pipeline of run r has completed successfully
StartCompleted(r) == r \in RunIds /\ start[r].pc = "returned" /\ ~start[r].threw

\* C37: no edit file of a run is written before that run's start pipeline has
\* completed successfully, even when an approval call for the run id arrives
\* while the pipeline is in flight or after it has failed.
C37_NoEditWrittenBeforeStartCompletes ==
    \A c \in DOMAIN calls :
        (calls[c].pc = "write" \/ Len(calls[c].wrote) > 0) => StartCompleted(calls[c].runId)

\* an approval call for a run whose pipeline is in flight or has failed was
\* turned away for the missing proposal context, with no file written
C37_Witness ==
    \E c \in DOMAIN calls :
        /\ calls[c].approved
        /\ calls[c].runId \in DOMAIN store
        /\ ~StartCompleted(calls[c].runId)
        /\ calls[c].failedAt = "context"
        /\ calls[c].wrote = <<>>
        /\ fs = InitialTree

(***************************************************************************)
(* C38                                                                     *)
(***************************************************************************)
\* the location the path names is the repository directory or lies below it
LiesInsideRepo(path) ==
    LET location == ResolveSegments(RepoPath, path)
        root == ResolveSegments(RepoPath, <<>>)
    IN  /\ Len(location) >= Len(root)
        /\ \A i \in 1..Len(root) : location[i] = root[i]

NamesOutsidePath(edits) == \E i \in 1..Len(edits) : ~LiesInsideRepo(edits[i].path)

\* C38: every file that finalize or a verification attempt writes or deletes
\* lies inside the run's repository path: an edit whose path resolves outside
\* is rejected with an error before that file is written, and in a
\* verification attempt before any file of the edit set is written.
C38_WritesStayInsideRepository ==
    /\ \A p \in DOMAIN fs : ~LiesInsideRepo(p) => fs[p] = Absent
    /\ \A c \in DOMAIN calls :
          /\ \A i \in 1..Len(calls[c].wrote) : LiesInsideRepo(calls[c].wrote[i])
          /\ (/\ calls[c].pc \in {"diff", "approveAppend", "returned"}
              /\ calls[c].approved)
                => ~NamesOutsidePath(calls[c].payload.edits)
    /\ \A v \in DOMAIN verify :
          /\ \A p \in verify[v].touched : LiesInsideRepo(p)
          /\ NamesOutsidePath(verify[v].edits) =>
                /\ verify[v].pc \in {"snapshot", "thrown"}
                /\ verify[v].touched = {}

\* finalize wrote src/a.ts and was stopped at ../r2/x.md, a path beside the
\* repository, which was not written
C38_Witness ==
    \E c \in DOMAIN calls :
        /\ calls[c].pc = "thrown"
        /\ calls[c].failedAt = "write"
        /\ calls[c].error = MsgOutside
        /\ calls[c].payload.edits = <<Edit(P_src_a_ts, "c"), Edit(P_sibling_x_md, "c")>>
        /\ calls[c].wrote = <<P_src_a_ts>>
        /\ fs[P_src_a_ts] = "c"
        /\ fs[P_sibling_x_md] = Absent

\* a verification attempt on src/a.ts and docs/../../x.md threw in its snapshot loop
\* with no file written
C38_WitnessVerification ==
    \E v \in DOMAIN verify :
        /\ verify[v].pc = "thrown"
        /\ verify[v].edits = <<Edit(P_src_a_ts, "c"), Edit(P_docs_up_up_x_md, "c")>>
        /\ verify[v].touched = {}
        /\ fs = SafeTree

====
